---------------------------- MODULE Spec2Model ----------------------------
(***************************************************************************)
(* A model of the TrustMed AI retrieval, ingestion and scoring code.       *)
(*                                                                         *)
(* Text is modelled as a sequence of one-character strings, so that the    *)
(* cleaning regexes, lower-casing and substring tests are computed rather  *)
(* than assumed.  Scores are fixed-point numbers: Scale stands for 1.0.    *)
(***************************************************************************)
EXTENDS Integers, Sequences, FiniteSets, TLC

VARIABLES
    clean_pc,           \* _clean_list: "call" before the call, "done" after it
    items,              \* _clean_list: its argument
    unique_items,       \* _clean_list: the value it returned
    db,                 \* MedicalDatabase: the rows of medical_entries
    db_seq,             \* MedicalDatabase: the last id AUTOINCREMENT gave out
    collection,         \* VectorStore: the Chroma collection, id -> document
    dup_raises,         \* whether this Chroma build raises on an id it holds
    op,                 \* the last run of process_and_store: argument, result
    nops,               \* the number of direct calls made on the stores
    last_db,            \* url -> the record last given to add_entry
    last_vec,           \* url -> the record last given to add_documents
    search_pc,          \* HybridSearch.search: "call" before the call, "done" after it
    search_call,        \* HybridSearch.search: what the two indexes return, n_results
    combined_results,   \* HybridSearch.search: the list _combine_results built
    search_results,     \* HybridSearch.search: the list it returned
    resp_pc,            \* a response entry point: "call" before the call, "done" after
    call,               \* the entry point called, its arguments, what the sources do
    response,           \* what the entry point returned, or that it raised
    fetched,            \* the sources the entry point asked
    retry_pc,           \* retry_request: "attempt", "sleep", "returned" or "raised"
    attempt,            \* retry_request: the loop variable
    func_log,           \* retry_request: what func did each time it was invoked
    slept,              \* retry_request: the waits given to time.sleep, in seconds
    retry_result,       \* retry_request: the value it returned
    dedup_pc,           \* deduplicate_data: "call" before the call, "done" after it
    data_list,          \* deduplicate_data: its argument
    unique_data,        \* deduplicate_data: the list it returned
    tx,                 \* add_entry: where the call is, its argument, its transaction
    observed,           \* what readers of medical_entries saw of the url being upserted
    fetch_pc,           \* fetch_recent_medical_articles: the statement it is at
    pmids_left,         \* fetch_recent_medical_articles: the PMIDs still to fetch
    now,                \* the time, in tenths of a second
    request_log,        \* the requests sent to PubMed: endpoint, time, outcome
    active_connections, \* WebSocketManager.active_connections
    handler,            \* websocket_endpoint: where the handler of each websocket is
    sessions,           \* ChatManager.sessions
    current_session_id, \* ChatManager.current_session_id
    clock               \* datetime.now(), in half seconds

cleanVars   == <<clean_pc, items, unique_items>>
ingestVars  == <<db, db_seq, collection, dup_raises, op, nops, last_db, last_vec>>
searchVars  == <<search_pc, search_call, combined_results, search_results>>
respondVars == <<resp_pc, call, response, fetched>>
retryVars   == <<retry_pc, attempt, func_log, slept, retry_result>>
dedupVars   == <<dedup_pc, data_list, unique_data>>
txVars      == <<tx, observed>>
fetchVars   == <<fetch_pc, pmids_left, now, request_log>>
socketVars  == <<active_connections, handler>>
sessionVars == <<sessions, current_session_id, clock>>
vars        == <<cleanVars, ingestVars, searchVars, respondVars, retryVars, dedupVars,
                 txVars, fetchVars, socketVars, sessionVars>>

-----------------------------------------------------------------------------
(* Bounds of the model *)

MaxItems == 3           \* longest facet list given to _clean_list
MaxBatch == 2           \* longest batch given to process_and_store and add_documents
MaxSeq   == 4           \* rows process_and_store may insert in one behaviour
MaxOps   == 3           \* direct calls of add_entry and add_documents in one behaviour
MaxHits  == 2           \* most hits of one index given to HybridSearch.search
MaxArticles == 6        \* most PMIDs a PubMed search returns
MaxPosts == 1           \* most posts and patient experiences a community source returns
MaxDocs  == 4           \* longest context given to generate_response
MaxResults == 4         \* most search results given to the answer generator
MaxCite  == 4           \* largest max_citations given to format_citations
MaxData  == 3           \* longest list given to deduplicate_data
MaxPmids == 5           \* most PMIDs an esearch request returns
MaxConnections == 3     \* websockets that connect in one behaviour
MaxClock == 3           \* half seconds that pass in one behaviour of the chat manager
MaxMessages == 2        \* most messages added to one session

-----------------------------------------------------------------------------
(* Characters and strings *)

UpperCs == <<"A","B","C","D","E","F","G","H","I","J","K","L","M",
             "N","O","P","Q","R","S","T","U","V","W","X","Y","Z">>
LowerCs == <<"a","b","c","d","e","f","g","h","i","j","k","l","m",
             "n","o","p","q","r","s","t","u","v","w","x","y","z">>

\* str.lower() on one character
LowerChar(c) ==
    IF \E i \in DOMAIN UpperCs : UpperCs[i] = c
    THEN LowerCs[CHOOSE i \in DOMAIN UpperCs : UpperCs[i] = c]
    ELSE c

\* str.lower()
Lower(s) == [i \in DOMAIN s |-> LowerChar(s[i])]

\* the regex class \s
IsSpace(c) == c \in {" ", "\n", "\t"}

RECURSIVE SeqsUpTo(_, _)
SeqsUpTo(S, n) ==
    IF n = 0 THEN {<<>>}
    ELSE LET shorter == SeqsUpTo(S, n - 1)
         IN  shorter \cup {Append(q, x) : q \in {p \in shorter : Len(p) = n - 1}, x \in S}

RECURSIVE LStrip(_)
LStrip(s) ==
    IF s # <<>> /\ IsSpace(Head(s)) THEN LStrip(Tail(s)) ELSE s

RECURSIVE RStrip(_)
RStrip(s) ==
    IF s # <<>> /\ IsSpace(s[Len(s)]) THEN RStrip(SubSeq(s, 1, Len(s) - 1)) ELSE s

\* str.strip()
Strip(s) == RStrip(LStrip(s))

\* re.sub(r'\s+', ' ', s)
RECURSIVE CollapseSpaces(_)
CollapseSpaces(s) ==
    IF s = <<>> THEN <<>>
    ELSE IF IsSpace(Head(s))
         THEN <<" ">> \o CollapseSpaces(LStrip(s))
         ELSE <<Head(s)>> \o CollapseSpaces(Tail(s))

\* re.sub(open + r'.*?' + close, '', s): the non-greedy match ends at the first
\* close after the open; '.' does not match a newline
RECURSIVE RemoveDelimited(_, _, _)
RemoveDelimited(s, open, close) ==
    IF s = <<>> THEN <<>>
    ELSE LET ends == {j \in 2..Len(s) :
                        /\ s[j] = close
                        /\ \A k \in 2..(j - 1) : s[k] # close /\ s[k] # "\n"}
         IN  IF Head(s) = open /\ ends # {}
             THEN RemoveDelimited(SubSeq(s, (CHOOSE j \in ends : TRUE) + 1, Len(s)),
                                  open, close)
             ELSE <<Head(s)>> \o RemoveDelimited(Tail(s), open, close)

HasPrefix(s, p) == Len(s) >= Len(p) /\ SubSeq(s, 1, Len(p)) = p

\* the length of the longest run of non-space characters at the start of s
RECURSIVE NonSpaceRun(_)
NonSpaceRun(s) ==
    IF s = <<>> \/ IsSpace(Head(s)) THEN 0 ELSE 1 + NonSpaceRun(Tail(s))

\* the length of the match of r'http[s]?://\S+' at the start of s, 0 if none
UrlMatchLen(s) ==
    LET scheme == IF HasPrefix(s, <<"h", "t", "t", "p", "s", ":", "/", "/">>) THEN 8
                  ELSE IF HasPrefix(s, <<"h", "t", "t", "p", ":", "/", "/">>) THEN 7
                  ELSE 0
        rest   == IF scheme = 0 THEN 0 ELSE NonSpaceRun(SubSeq(s, scheme + 1, Len(s)))
    IN  IF scheme > 0 /\ rest > 0 THEN scheme + rest ELSE 0

\* re.sub(r'http[s]?://\S+', '', s)
RECURSIVE RemoveUrls(_)
RemoveUrls(s) ==
    IF s = <<>> THEN <<>>
    ELSE IF UrlMatchLen(s) > 0
         THEN RemoveUrls(SubSeq(s, UrlMatchLen(s) + 1, Len(s)))
         ELSE <<Head(s)>> \o RemoveUrls(Tail(s))

-----------------------------------------------------------------------------
(* DataCleaner *)

\* DataCleaner._clean_text
_clean_text(text) ==
    IF text = <<>> THEN <<>>
    ELSE LET t0 == CollapseSpaces(Strip(text))
             t1 == RemoveDelimited(t0, "[", "]")
             t2 == RemoveDelimited(t1, "(", ")")
             t3 == RemoveDelimited(t2, "<", ">")
             t4 == RemoveUrls(t3)
         IN  Strip(t4)

\* the first loop of _clean_list: clean each item, skip the very short ones
RECURSIVE cleaned_items(_)
cleaned_items(list) ==
    IF list = <<>> THEN <<>>
    ELSE LET cleaned_item == _clean_text(Head(list))
         IN  (IF cleaned_item # <<>> /\ Len(cleaned_item) > 3
              THEN <<cleaned_item>> ELSE <<>>)
             \o cleaned_items(Tail(list))

\* the test of the second loop with the lower-casing of the item forgotten
NotSeenYet_exact(seen, item) == item \notin seen

\* the item of the second loop: is its lower-cased form already in seen?
NotSeenYet(seen, item) == Lower(item) \notin seen

\* the second loop of _clean_list: remove duplicates while preserving order
RECURSIVE unique_from(_, _)
unique_from(list, seen) ==
    IF list = <<>> THEN <<>>
    ELSE IF NotSeenYet(seen, Head(list))
         THEN <<Head(list)>> \o unique_from(Tail(list), seen \cup {Lower(Head(list))})
         ELSE unique_from(Tail(list), seen)

\* DataCleaner._clean_list
_clean_list(list) == unique_from(cleaned_items(list), {})

-----------------------------------------------------------------------------
(* Python values and dicts *)

\* a str, a list of str and a float, as isinstance tells them apart
Str(chars)  == [type |-> "str", v |-> chars]
List(strs)  == [type |-> "list", v |-> strs]
Float(n)    == [type |-> "float", v |-> n]
None        == [type |-> "None", v |-> 0]

\* dict.get(key, default)
Get(d, key, default) == IF key \in DOMAIN d THEN d[key] ELSE default

\* bool(value): None, '', [] and 0.0 are falsy
Truthy(value) ==
    CASE value.type = "None"  -> FALSE
      [] value.type = "float" -> value.v # 0
      [] OTHER                -> value.v # <<>>

\* d[key] = value
SetItem(d, key, value) ==
    [k \in DOMAIN d \cup {key} |-> IF k = key THEN value ELSE d[k]]

\* sep.join(parts)
RECURSIVE Join(_, _)
Join(sep, parts) ==
    IF parts = <<>> THEN <<>>
    ELSE IF Len(parts) = 1 THEN Head(parts)
    ELSE Head(parts) \o sep \o Join(sep, Tail(parts))

\* json.dumps of a list of str (no character of the model needs escaping)
JsonDumps(strs) ==
    <<"[">> \o Join(<<",", " ">>, [i \in DOMAIN strs |-> <<"\"">> \o strs[i] \o <<"\"">>])
    \o <<"]">>

\* 1.0 in the fixed-point scores of the model
Scale == 10 * 1000

\* the decimal literal 0.n
Tenths(n) == (n * Scale) \div 10

Min(a, b) == IF a <= b THEN a ELSE b

-----------------------------------------------------------------------------
(* DataCleaner, on whole records *)

\* DataCleaner.clean_medical_data
clean_medical_data(data) ==
    [key \in DOMAIN data |->
        CASE data[key].type = "str"  -> Str(_clean_text(data[key].v))
          [] data[key].type = "list" -> List(_clean_list(data[key].v))
          [] OTHER                   -> data[key]]

required_fields == <<"title", "source", "url">>

credible_sources == { <<"M", "a", "y", "o", " ", "C", "l", "i", "n", "i", "c">>, <<"W", "e", "b", "M", "D">>, <<"J", "A", "M", "A">>, <<"N", "E", "J", "M">>, <<"B", "M", "J">> }

\* the check of the required fields with the title left out of the list
MissingFields_no_title(data) ==
    SelectSeq(Tail(required_fields), LAMBDA field : ~Truthy(Get(data, field, None)))

\* the fields validate_medical_content reports as missing
MissingFields(data) ==
    SelectSeq(required_fields, LAMBDA field : ~Truthy(Get(data, field, None)))

\* DataCleaner.validate_medical_content
validate_medical_content(data) ==
    LET quality ==
              (IF Truthy(Get(data, "symptoms", None))   THEN Tenths(3) ELSE 0)
            + (IF Truthy(Get(data, "causes", None))     THEN Tenths(2) ELSE 0)
            + (IF Truthy(Get(data, "treatments", None)) THEN Tenths(3) ELSE 0)
            + (IF Truthy(Get(data, "content", None))    THEN Tenths(2) ELSE 0)
        credible ==
            IF Get(data, "source", None).type = "str"
               /\ Get(data, "source", None).v \in credible_sources
            THEN Tenths(2) ELSE 0
    IN  [ is_valid         |-> MissingFields(data) = <<>>,
          issues           |-> MissingFields(data),
          confidence_score |-> Min(quality + credible, Scale) ]

-----------------------------------------------------------------------------
(* MedicalDatabase: the medical_entries table *)

list_columns == {"symptoms", "causes", "treatments", "drugs", "side_effects"}

\* the loop at the head of add_entry: every list the caller's dict holds under
\* a list column is replaced, in the caller's dict, by its JSON text
ListsToJson(data) ==
    [key \in DOMAIN data |->
        IF key \in list_columns /\ data[key].type = "list"
        THEN Str(JsonDumps(data[key].v))
        ELSE data[key]]

\* the tuple of values add_entry binds to the INSERT
RowValues(data) ==
    [ condition        |-> Get(data, "condition", Str(<<>>)),
      title            |-> Get(data, "title", Str(<<>>)),
      symptoms         |-> Get(data, "symptoms", Str(<<"[", "]">>)),
      causes           |-> Get(data, "causes", Str(<<"[", "]">>)),
      treatments       |-> Get(data, "treatments", Str(<<"[", "]">>)),
      drugs            |-> Get(data, "drugs", Str(<<"[", "]">>)),
      side_effects     |-> Get(data, "side_effects", Str(<<"[", "]">>)),
      content          |-> Get(data, "content", Str(<<>>)),
      source           |-> Get(data, "source", Str(<<>>)),
      source_type      |-> Get(data, "source_type", Str(<<>>)),
      url              |-> Get(data, "url", Str(<<>>)),
      confidence_score |-> Get(data, "confidence_score", Float(0)) ]

\* INSERT OR REPLACE with url UNIQUE and id AUTOINCREMENT: the rows that
\* conflict on url are deleted and the new row takes the next id of the
\* sequence, which never reuses an id
InsertOrReplace(table, seq, values) ==
    {row \in table : row.values.url # values.url}
        \cup {[id |-> seq + 1, values |-> values]}

\* MedicalDatabase.add_entry: the table, the sequence and the caller's dict
\* after the call, and the returned lastrowid
add_entry(table, seq, data) ==
    LET mutated == ListsToJson(data)
    IN  [ table    |-> InsertOrReplace(table, seq, RowValues(mutated)),
          seq      |-> seq + 1,
          data     |-> mutated,
          entry_id |-> seq + 1 ]

-----------------------------------------------------------------------------
(* VectorStore: the Chroma collection, a map from document id to document *)

\* ', '.join(value): of the strings of a list, or of the characters of a str
JoinValue(value) ==
    IF value.type = "list" THEN Join(<<",", " ">>, value.v)
    ELSE Join(<<",", " ">>, [i \in DOMAIN value.v |-> <<value.v[i]>>])

\* the searchable text add_documents builds for one document
SearchText(doc) ==
    LET part(key, label) ==
            IF Truthy(Get(doc, key, None))
            THEN << label \o (IF key \in {"title", "content"}
                              THEN doc[key].v ELSE JoinValue(doc[key])) >>
            ELSE <<>>
    IN  Join(<<" ">>,
             part("title", <<"T", "i", "t", "l", "e", ":", " ">>) \o part("content", <<"C", "o", "n", "t", "e", "n", "t", ":", " ">>)
             \o part("symptoms", <<"S", "y", "m", "p", "t", "o", "m", "s", ":", " ">>) \o part("causes", <<"C", "a", "u", "s", "e", "s", ":", " ">>)
             \o part("treatments", <<"T", "r", "e", "a", "t", "m", "e", "n", "t", "s", ":", " ">>))

\* the metadata add_documents builds for one document
Metadata(doc) ==
    [ condition        |-> Get(doc, "condition", Str(<<>>)),
      source           |-> Get(doc, "source", Str(<<>>)),
      source_type      |-> Get(doc, "source_type", Str(<<>>)),
      url              |-> Get(doc, "url", Str(<<>>)),
      confidence_score |-> Get(doc, "confidence_score", Float(0)) ]

\* ids.append(f"doc_{i}"): the id of the i-th document of one call, counted
\* from 0 in every call; the id doc_i is modelled by the number i
DocId(i) == i - 1

\* collection.add(documents, metadatas, ids) when some id is already in the
\* collection: a Chroma build either raises and adds nothing, or skips the
\* ids it already holds and adds the others
CollectionAdd(coll, documents, raises) ==
    LET ids      == {DocId(i) : i \in DOMAIN documents}
        existing == ids \cap DOMAIN coll
        entry(i) == [ document |-> SearchText(documents[i]),
                      metadata |-> Metadata(documents[i]) ]
    IN  IF existing # {} /\ raises
        THEN [ coll |-> coll, raised |-> TRUE ]
        ELSE [ coll |-> [id \in DOMAIN coll \cup ids |->
                            IF id \in DOMAIN coll THEN coll[id]
                            ELSE entry(id + 1)],
               raised |-> FALSE ]

\* VectorStore.add_documents
add_documents(coll, documents, raises) == CollectionAdd(coll, documents, raises)

-----------------------------------------------------------------------------
(* DataPipeline.process_and_store *)

\* the body of the loop for one item; an exception of the vector store is
\* caught by the loop's except, after processed_count was incremented
ProcessItem(st, item, raises) ==
    LET cleaned_data == clean_medical_data(item)
        validation   == validate_medical_content(cleaned_data)
        scored       == SetItem(cleaned_data, "confidence_score",
                                Float(validation.confidence_score))
        added        == add_entry(st.table, st.seq, scored)
        stored       == add_documents(st.coll, <<added.data>>, raises)
    IN  IF validation.is_valid
        THEN [ table           |-> added.table,
               seq             |-> added.seq,
               coll            |-> stored.coll,
               processed_count |-> st.processed_count + 1,
               stored_count    |-> st.stored_count + (IF stored.raised THEN 0 ELSE 1) ]
        ELSE st

RECURSIVE ProcessItems(_, _, _)
ProcessItems(st, data, raises) ==
    IF data = <<>> THEN st
    ELSE ProcessItems(ProcessItem(st, Head(data), raises), Tail(data), raises)

\* DataPipeline.process_and_store: the state of both stores after the call and
\* the returned counts
process_and_store(table, seq, coll, data, raises) ==
    LET Returned(st) ==
            [ table |-> st.table, seq |-> st.seq, coll |-> st.coll,
              result |-> [ processed |-> st.processed_count,
                           stored    |-> st.stored_count,
                           total     |-> Len(data) ] ]
    IN  Returned(ProcessItems([ table |-> table, seq |-> seq, coll |-> coll,
                                processed_count |-> 0, stored_count |-> 0 ],
                              data, raises))

-----------------------------------------------------------------------------
(* The ingestion state machine: both stores and the calls made on them *)

\* the raw records the scrapers hand to the pipeline
RawRecords ==
    { [ title |-> Str(<<"F", "l", "u">>),  source |-> Str(<<"W", "e", "b", "M", "D">>), url |-> Str(<<"a", ".", "o", "r", "g", "/", "1">>) ],
      [ title |-> Str(<<"C", "o", "l", "d", " ", "[", "x", "]">>), source |-> Str(<<"B", "l", "o", "g">>), url |-> Str(<<"a", ".", "o", "r", "g", "/", "1">>) ],
      [ title |-> Str(<<"F", "l", "u">>),  source |-> Str(<<"W", "e", "b", "M", "D">>), url |-> Str(<<"a", ".", "o", "r", "g", "/", "2">>),
        symptoms |-> List(<< <<"F", "e", "v", "e", "r">>, <<"f", "e", "v", "e", "r", " ">> >>) ],
      [ title |-> Str(<<"F", "l", "u">>),  source |-> Str(<<"W", "e", "b", "M", "D">>), url |-> Str(<<"h", "t", "t", "p", ":", "/", "/", "a", ".", "o", "r", "g", "/", "3">>) ],
      [ source |-> Str(<<"W", "e", "b", "M", "D">>), url |-> Str(<<"a", ".", "o", "r", "g", "/", "2">>) ],
      [ title |-> Str(<<"C", "o", "l", "d">>), source |-> Str(<<>>), url |-> Str(<<"a", ".", "o", "r", "g", "/", "1">>) ],
      [ title |-> Str(<<"C", "o", "l", "d">>), source |-> Str(<<"B", "l", "o", "g">>) ] }

Batches == SeqsUpTo(RawRecords, MaxBatch)

EmptyMap == [x \in {} |-> None]

\* the map m with every record of the sequence filed under its url, the later
\* record of a url replacing the earlier one
RECURSIVE Filed(_, _)
Filed(m, records) ==
    IF records = <<>> THEN m
    ELSE Filed(SetItem(m, Get(Head(records), "url", Str(<<>>)), Head(records)),
               Tail(records))

NoCall == [name |-> "none"]

InitIngest ==
    /\ db = {}
    /\ db_seq = 0
    /\ collection = EmptyMap
    /\ dup_raises \in BOOLEAN
    /\ op = NoCall
    /\ nops = 0
    /\ last_db = EmptyMap
    /\ last_vec = EmptyMap

\* one run of the ingestion path on a batch of raw records; op keeps the
\* batch, both stores as they were before the run, and the returned counts
ProcessAndStore ==
    /\ \E data \in Batches :
        \E r \in {process_and_store(db, db_seq, collection, data, dup_raises)} :
            /\ db_seq + Len(data) <= MaxSeq
            /\ db' = r.table
            /\ db_seq' = r.seq
            /\ collection' = r.coll
            /\ op' = [ name |-> "process_and_store", data |-> data,
                       result |-> r.result,
                       db_before |-> db, collection_before |-> collection ]
    /\ UNCHANGED <<dup_raises, nops, last_db, last_vec, cleanVars, searchVars, respondVars, retryVars, dedupVars, txVars, fetchVars,
                   socketVars, sessionVars>>

NextIngest == ProcessAndStore

\* a caller upserts one record into the structured index
AddEntry ==
    /\ nops < MaxOps
    /\ \E data \in RawRecords :
        \E r \in {add_entry(db, db_seq, data)} :
            /\ db' = r.table
            /\ db_seq' = r.seq
            /\ last_db' = Filed(last_db, <<data>>)
    /\ nops' = nops + 1
    /\ UNCHANGED <<collection, dup_raises, op, last_vec, cleanVars, searchVars, respondVars, retryVars, dedupVars, txVars, fetchVars,
                   socketVars, sessionVars>>

\* a caller upserts a list of records into the semantic index
AddDocuments ==
    /\ nops < MaxOps
    /\ \E documents \in Batches \ {<<>>} :
        \E r \in {add_documents(collection, documents, dup_raises)} :
            /\ collection' = r.coll
            /\ last_vec' = Filed(last_vec, documents)
    /\ nops' = nops + 1
    /\ UNCHANGED <<db, db_seq, dup_raises, op, last_db, cleanVars, searchVars, respondVars, retryVars, dedupVars, txVars, fetchVars,
                   socketVars, sessionVars>>

NextUpsert == AddEntry \/ AddDocuments
-----------------------------------------------------------------------------
(* Exceptions: what a call gives is a value, or an exception that the caller
   catches or passes on *)

Ok(value) == [exc |-> FALSE, v |-> value]
Exc       == [exc |-> TRUE, v |-> <<>>]

\* bool(d) of an Optional[Dict]: None and {} are falsy
NonEmptyDict(d) == d # None /\ DOMAIN d # {}

\* needle in text
Contains(text, needle) ==
    \E i \in 0..(Len(text) - Len(needle)) :
        SubSeq(text, i + 1, i + Len(needle)) = needle

-----------------------------------------------------------------------------
(* HybridSearch *)

\* the place of one more result in a list sorted by relevance, highest first:
\* behind every result whose relevance is not lower, as a stable sort puts it
RECURSIVE InsertByRelevance(_, _)
InsertByRelevance(sorted, result) ==
    IF sorted = <<>> THEN <<result>>
    ELSE IF Head(sorted).relevance_score >= result.relevance_score
         THEN <<Head(sorted)>> \o InsertByRelevance(Tail(sorted), result)
         ELSE <<result>> \o sorted

\* combined.sort(key=lambda x: x.get('relevance_score', 0), reverse=True)
RECURSIVE SortByRelevance(_)
SortByRelevance(list) ==
    IF list = <<>> THEN <<>>
    ELSE InsertByRelevance(SortByRelevance(SubSeq(list, 1, Len(list) - 1)),
                           list[Len(list)])

\* the first loop of _combine_results, on one result of the structured index
StructuredHit(result) ==
    SetItem(SetItem(result, "search_type", "structured"),
            "relevance_score", Tenths(8))

\* the second loop of _combine_results, on one result of the semantic index;
\* the distance is not clamped
SemanticHit(result) ==
    SetItem(SetItem(result, "search_type", "semantic"),
            "relevance_score", Scale - Get(result, "distance", Tenths(5)))

\* HybridSearch._combine_results
_combine_results(structured_results, semantic_results) ==
    SortByRelevance([i \in DOMAIN structured_results |->
                        StructuredHit(structured_results[i])]
                    \o [i \in DOMAIN semantic_results |->
                        SemanticHit(semantic_results[i])])

\* list[:n] for n >= 0
Take(list, n) == SubSeq(list, 1, Min(n, Len(list)))

search_uncut(structured_results, semantic_results, n_results) ==
    _combine_results(structured_results, semantic_results)
\* HybridSearch.search, given what the two indexes return for the query
search(structured_results, semantic_results, n_results) ==
    Take(_combine_results(structured_results, semantic_results), n_results)

\* MedicalDatabase.search_entries: the rows, or the error of sqlite3
search_entries(index) ==
    IF index.structured = "error" THEN Exc ELSE Ok(index.structured_results)

\* VectorStore.search: the results of the collection, or its error
vector_store_search(index) ==
    IF index.semantic = "error" THEN Exc ELSE Ok(index.semantic_results)

-----------------------------------------------------------------------------
(* Calls of HybridSearch.search *)

Urls == {"a.org/1", "a.org/2"}

\* rows MedicalDatabase.search_entries returns
StructuredRows == {[id |-> 1, title |-> "Flu", url |-> url] : url \in Urls}

\* distances Chroma returns: 0.0, 0.3, and one above 1.0
Distances == {0, Tenths(3), Tenths(12)}

\* results VectorStore.search returns, and one result without a distance
SemanticRows ==
    {[document |-> "Title: Flu", metadata |-> [url |-> url], distance |-> d] :
        url \in Urls, d \in Distances}
    \cup {[document |-> "Title: Flu", metadata |-> [url |-> "a.org/1"]]}

\* what the two indexes do during one call; the collection returns at most
\* n_results results
SearchCalls ==
    { c \in [ structured         : {"error", "ok"},
              structured_results : SeqsUpTo(StructuredRows, MaxHits),
              semantic           : {"error", "ok"},
              semantic_results   : SeqsUpTo(SemanticRows, MaxHits),
              n_results          : {1, MaxHits + 1} ] :
        /\ c.structured = "error" => c.structured_results = <<>>
        /\ c.semantic = "error" => c.semantic_results = <<>>
        /\ Len(c.semantic_results) <= c.n_results }

InitSearch ==
    /\ search_pc = "call"
    /\ search_call \in SearchCalls
    /\ combined_results = <<>>
    /\ search_results = <<>>

\* one call of HybridSearch.search
hybrid_search ==
    /\ search_pc = "call"
    /\ IF search_entries(search_call).exc \/ vector_store_search(search_call).exc
       THEN /\ search_pc' = "raised"
            /\ UNCHANGED <<combined_results, search_results>>
       ELSE /\ search_pc' = "done"
            /\ combined_results' = _combine_results(search_entries(search_call).v,
                                                    vector_store_search(search_call).v)
            /\ search_results' = search(search_entries(search_call).v,
                                        vector_store_search(search_call).v,
                                        search_call.n_results)
    /\ UNCHANGED <<search_call, cleanVars, ingestVars, respondVars, retryVars, dedupVars, txVars, fetchVars,
                   socketVars, sessionVars>>

NextSearch == hybrid_search

IdleSearch ==
    /\ search_pc = "idle"
    /\ search_call = <<>>
    /\ combined_results = <<>>
    /\ search_results = <<>>
-----------------------------------------------------------------------------
(* PubMedClient *)

search_articles_no_except(env) ==
    IF env.esearch = "error" THEN Exc
    ELSE Ok([i \in 1..env.pmids |-> i])
\* PubMedClient.search_articles: the PMIDs, or [] when the request fails
search_articles(env) ==
    IF env.esearch = "error" THEN Ok(<<>>)
    ELSE Ok([i \in 1..env.pmids |-> i])

\* PubMedClient.get_article_details: the article, or None when the request fails
get_article_details(env, pmid) ==
    IF env.efetch = "error" THEN Ok(None)
    ELSE Ok([ pmid |-> pmid, title |-> <<"T", "r", "i", "a", "l">>, journal |-> <<"N", "E", "J", "M">>,
              year |-> <<"2", "0", "2", "4">>, source |-> <<"P", "u", "b", "M", "e", "d">> ])

\* the loop of fetch_recent_medical_articles over the PMIDs of one condition
RECURSIVE ArticlesOf(_, _, _)
ArticlesOf(env, pmids, condition) ==
    IF pmids = <<>> THEN Ok(<<>>)
    ELSE LET Collected(article, rest) ==
                 IF article.exc \/ rest.exc THEN Exc
                 ELSE IF NonEmptyDict(article.v)
                      THEN Ok(<<SetItem(article.v, "condition", condition)>> \o rest.v)
                      ELSE rest
         IN  Collected(get_article_details(env, Head(pmids)),
                       ArticlesOf(env, Tail(pmids), condition))

\* PubMedClient.fetch_recent_medical_articles, for one condition
fetch_recent_medical_articles(env, condition) ==
    LET Fetched(pmids) ==
            IF pmids.exc THEN Exc ELSE ArticlesOf(env, Take(pmids.v, 20), condition)
    IN  Fetched(search_articles(env))

-----------------------------------------------------------------------------
(* MedicalWebScraper *)

\* what a condition page gives when it can be read
Page(source, condition) ==
    [ title |-> <<"O", "v", "e", "r", "v", "i", "e", "w">>, symptoms |-> << <<"t", "h", "i", "r", "s", "t">> >>,
      causes |-> << <<"i", "n", "s", "u", "l", "i", "n">> >>, treatments |-> << <<"d", "i", "e", "t">> >>,
      source |-> source, condition |-> condition ]

scrape_mayo_clinic_no_except(env, condition) ==
    CASE env.mayo = "error"  -> Exc
      [] env.mayo = "none"   -> Ok(None)
      [] env.mayo = "broken" -> Ok(EmptyMap)
      [] OTHER               -> Ok(Page(<<"M", "a", "y", "o", " ", "C", "l", "i", "n", "i", "c">>, condition))
\* MedicalWebScraper.scrape_mayo_clinic: None when the search fails or finds
\* no link, {} when the condition page fails
scrape_mayo_clinic(env, condition) ==
    CASE env.mayo = "error"  -> Ok(None)
      [] env.mayo = "none"   -> Ok(None)
      [] env.mayo = "broken" -> Ok(EmptyMap)
      [] OTHER               -> Ok(Page(<<"M", "a", "y", "o", " ", "C", "l", "i", "n", "i", "c">>, condition))

\* MedicalWebScraper.scrape_webmd
scrape_webmd(env, condition) ==
    CASE env.webmd = "error"  -> Ok(None)
      [] env.webmd = "none"   -> Ok(None)
      [] env.webmd = "broken" -> Ok(EmptyMap)
      [] OTHER                -> Ok(Page(<<"W", "e", "b", "M", "D">>, condition))

\* MedicalWebScraper.scrape_multiple_sources
scrape_multiple_sources(env, condition) ==
    LET Results(mayo_result, webmd_result) ==
            IF mayo_result.exc \/ webmd_result.exc THEN Exc
            ELSE Ok((IF NonEmptyDict(mayo_result.v) THEN <<mayo_result.v>> ELSE <<>>)
                    \o (IF NonEmptyDict(webmd_result.v) THEN <<webmd_result.v>> ELSE <<>>))
    IN  Results(scrape_mayo_clinic(env, condition), scrape_webmd(env, condition))

-----------------------------------------------------------------------------
(* LiveDataPipeline *)

\* LiveDataPipeline.ingest_medical_condition
ingest_medical_condition(env, condition) ==
    LET Combined(pubmed_articles, web_data) ==
            IF pubmed_articles.exc \/ web_data.exc THEN Exc
            ELSE Ok([ condition       |-> condition,
                      pubmed_articles |-> pubmed_articles.v,
                      web_sources     |-> web_data.v,
                      total_sources   |-> Len(pubmed_articles.v) + Len(web_data.v) ])
    IN  Combined(fetch_recent_medical_articles(env, condition),
                 scrape_multiple_sources(env, condition))

\* list(set(...)) of the entries the web sources give under one key
AllOf(web_sources, key) ==
    UNION {{Get(web_sources[i], key, <<>>)[j] :
                j \in DOMAIN Get(web_sources[i], key, <<>>)} : i \in DOMAIN web_sources}

\* LiveDataPipeline.get_condition_summary
get_condition_summary(data) ==
    [ condition       |-> data.condition,
      symptoms        |-> AllOf(data.web_sources, "symptoms"),
      treatments      |-> AllOf(data.web_sources, "treatments"),
      causes          |-> AllOf(data.web_sources, "causes"),
      recent_research |-> [i \in 1..Min(5, Len(data.pubmed_articles)) |->
                              [ title   |-> data.pubmed_articles[i].title,
                                journal |-> data.pubmed_articles[i].journal,
                                year    |-> data.pubmed_articles[i].year ]],
      total_sources   |-> data.total_sources ]

-----------------------------------------------------------------------------
(* RedditClient *)

\* RedditClient.search_medical_posts: the posts, none when the API fails
search_medical_posts(env) ==
    IF env.reddit = "error" THEN Ok(<<>>)
    ELSE Ok([i \in 1..env.posts |->
                [ title |-> <<"A", "n", "y", "o", "n", "e", " ", "e", "l", "s", "e", "?">>, content |-> [k \in 1..60 |-> "x"],
                  subreddit |-> <<"A", "s", "k", "D", "o", "c", "s">> ]])

\* list(set(post["subreddit"] for post in posts)): every post of the model is
\* of one subreddit
SubredditsOf(posts) == IF posts = <<>> THEN <<>> ELSE <<posts[1].subreddit>>

\* RedditClient._extract_patient_experiences
_extract_patient_experiences(posts) ==
    Take(SelectSeq([i \in DOMAIN posts |-> posts[i].content],
                   LAMBDA content : Len(content) > 50 /\ Len(content) < 500), 10)

\* RedditClient.get_condition_insights: {} when anything in it raises
get_condition_insights(env, condition) ==
    LET Insights(posts) ==
            IF posts.exc THEN Ok(EmptyMap)
            ELSE Ok([ condition           |-> condition,
                      total_posts         |-> Len(posts.v),
                      subreddits          |-> SubredditsOf(posts.v),
                      patient_experiences |-> _extract_patient_experiences(posts.v),
                      questions           |-> Take(SelectSeq([i \in DOMAIN posts.v |-> posts.v[i].title],
                                                             LAMBDA title : Contains(title, <<"?">>)), 10) ])
    IN  Insights(search_medical_posts(env))

-----------------------------------------------------------------------------
(* DiscussionBoardScraper *)

\* scrape_webmd_forums and scrape_healthboards: the request fails, or the page
\* lists no thread, or the first thread link reaches urljoin, a name the module
\* never imports: the NameError is caught like any failure, and the list is []
scrape_thread_forum(env) ==
    IF env.forums = "error" THEN Ok(<<>>)
    ELSE IF env.threads > 0 THEN Ok(<<>>)
    ELSE Ok(<<>>)

\* DiscussionBoardScraper.scrape_patients_like_me
scrape_patients_like_me(env) ==
    IF env.forums = "error" THEN Ok(<<>>)
    ELSE Ok([i \in 1..env.experiences |->
                [content |-> <<"I", " ", "w", "a", "s", " ", "d", "i", "a", "g", "n", "o", "s", "e", "d", ".", ".", ".">>, source |-> <<"P", "a", "t", "i", "e", "n", "t", "s", "L", "i", "k", "e", "M", "e">>]])

\* DiscussionBoardScraper.scrape_all_forums
scrape_all_forums(env, condition) ==
    LET AllData(webmd_forums, patients_like_me, healthboards) ==
            IF webmd_forums.exc \/ patients_like_me.exc \/ healthboards.exc THEN Exc
            ELSE Ok([ condition        |-> condition,
                      webmd_forums     |-> webmd_forums.v,
                      patients_like_me |-> patients_like_me.v,
                      healthboards     |-> healthboards.v ])
    IN  AllData(scrape_thread_forum(env), scrape_patients_like_me(env),
                scrape_thread_forum(env))

-----------------------------------------------------------------------------
(* CommunityDataPipeline *)

\* the posts of every discussion of the two thread forums
RECURSIVE Flatten(_)
Flatten(lists) == IF lists = <<>> THEN <<>> ELSE Head(lists) \o Flatten(Tail(lists))

ForumPosts(forum_data) ==
    Flatten([i \in DOMAIN Get(forum_data, "webmd_forums", <<>>) |->
                Get(forum_data.webmd_forums[i], "posts", <<>>)]
            \o [i \in DOMAIN Get(forum_data, "healthboards", <<>>) |->
                Get(forum_data.healthboards[i], "posts", <<>>)])

\* CommunityDataPipeline._combine_insights
_combine_insights(reddit_data, forum_data) ==
    [ total_community_sources |->
          Get(reddit_data, "total_posts", 0)
          + Len(Get(forum_data, "webmd_forums", <<>>))
          + Len(Get(forum_data, "patients_like_me", <<>>))
          + Len(Get(forum_data, "healthboards", <<>>)),
      patient_experiences |->
          Get(reddit_data, "patient_experiences", <<>>)
          \o [i \in DOMAIN Get(forum_data, "patients_like_me", <<>>) |->
                 forum_data.patients_like_me[i].content],
      common_questions      |-> Get(reddit_data, "questions", <<>>),
      treatment_discussions |-> ForumPosts(forum_data),
      symptom_experiences   |->
          SelectSeq(ForumPosts(forum_data),
                    LAMBDA post : \/ Contains(Lower(post), <<"s", "y", "m", "p", "t", "o", "m">>)
                                  \/ Contains(Lower(post), <<"f", "e", "e", "l">>)
                                  \/ Contains(Lower(post), <<"e", "x", "p", "e", "r", "i", "e", "n", "c", "e">>)),
      sources |->
          [i \in DOMAIN Get(reddit_data, "subreddits", <<>>) |->
              <<"R", "e", "d", "d", "i", "t", " ", "r", "/">> \o reddit_data.subreddits[i]]
          \o << <<"W", "e", "b", "M", "D", " ", "F", "o", "r", "u", "m", "s">>, <<"P", "a", "t", "i", "e", "n", "t", "s", "L", "i", "k", "e", "M", "e">>, <<"H", "e", "a", "l", "t", "h", "B", "o", "a", "r", "d", "s">> >> ]

\* the dict get_community_insights falls back on when the Reddit client raises
NoRedditInsights(condition) ==
    [ condition |-> condition, total_posts |-> 0, subreddits |-> <<>>,
      patient_experiences |-> <<>>, questions |-> <<>> ]

\* CommunityDataPipeline.get_community_insights
get_community_insights(env, condition) ==
    LET Community(reddit_insights, forum_data) ==
            IF forum_data.exc THEN Exc
            ELSE Ok([ condition  |-> condition,
                      combined_insights |->
                          _combine_insights(IF reddit_insights.exc
                                            THEN NoRedditInsights(condition)
                                            ELSE reddit_insights.v,
                                            forum_data.v) ])
    IN  Community(get_condition_insights(env, condition),
                  scrape_all_forums(env, condition))

\* CommunityDataPipeline.get_condition_summary_with_community
get_condition_summary_with_community(env, condition) ==
    LET Summary(community_insights) ==
            IF community_insights.exc THEN Exc
            ELSE Ok([ condition             |-> condition,
                      community_sources     |-> community_insights.v.combined_insights.total_community_sources,
                      patient_experiences   |-> Len(community_insights.v.combined_insights.patient_experiences),
                      common_questions      |-> Len(community_insights.v.combined_insights.common_questions),
                      treatment_discussions |-> Len(community_insights.v.combined_insights.treatment_discussions),
                      symptom_experiences   |-> Len(community_insights.v.combined_insights.symptom_experiences),
                      sources               |-> community_insights.v.combined_insights.sources ])
    IN  Summary(get_community_insights(env, condition))
-----------------------------------------------------------------------------
(* EnhancedRAGPipeline *)

conditions ==
    << <<"d", "i", "a", "b", "e", "t", "e", "s">>, <<"h", "y", "p", "e", "r", "t", "e", "n", "s", "i", "o", "n">>, <<"a", "s", "t", "h", "m", "a">>, <<"d", "e", "p", "r", "e", "s", "s", "i", "o", "n">>, <<"c", "a", "n", "c", "e", "r">>,
       <<"h", "e", "a", "r", "t", " ", "d", "i", "s", "e", "a", "s", "e">>, <<"m", "i", "g", "r", "a", "i", "n", "e">>, <<"a", "r", "t", "h", "r", "i", "t", "i", "s">>, <<"a", "l", "l", "e", "r", "g", "i", "e", "s">>, <<"a", "n", "x", "i", "e", "t", "y">> >>

\* the first entry of a list that the text contains, None when there is none
RECURSIVE FirstContained(_, _)
FirstContained(list, text) ==
    IF list = <<>> THEN None
    ELSE IF Contains(text, Head(list)) THEN Str(Head(list))
    ELSE FirstContained(Tail(list), text)

_extract_condition_from_query_general(query) ==
    IF FirstContained(conditions, Lower(query)) = None THEN Str(<<"g", "e", "n", "e", "r", "a", "l">>)
    ELSE FirstContained(conditions, Lower(query))
\* EnhancedRAGPipeline._extract_condition_from_query
_extract_condition_from_query(query) == FirstContained(conditions, Lower(query))

\* `not condition` of an Optional[str]
Falsy(condition) == ~Truthy(condition)

\* EnhancedRAGPipeline._generate_general_response; the text of an answer is
\* kept as the parts it is built from
_generate_general_response(query) ==
    [ answer             |-> << [part |-> "asking_about", text |-> query],
                                [part |-> "mention_the_condition"] >>,
      sources            |-> << <<"T", "r", "u", "s", "t", "M", "e", "d", " ", "A", "I", " ", "G", "e", "n", "e", "r", "a", "l", " ", "R", "e", "s", "p", "o", "n", "s", "e">> >>,
      confidence         |-> Tenths(5),
      evidence_type      |-> "general",
      community_insights |-> FALSE ]

\* EnhancedRAGPipeline._calculate_enhanced_confidence
_calculate_enhanced_confidence(medical_summary, community_insights) ==
    Min(Tenths(6)
        + (IF Get(medical_summary, "total_sources", 0) > 0 THEN Tenths(2) ELSE 0)
        + (IF community_insights.community_sources > 0 THEN Tenths(1) ELSE 0)
        + (IF Get(medical_summary, "recent_research", <<>>) # <<>> THEN Tenths(1) ELSE 0),
        Scale)

\* the parts of the answer _blend_evidence_and_community joins
AnswerParts(medical_summary, community_insights) ==
    (IF medical_summary.symptoms # {}
     THEN << [part |-> "medical_evidence"],
             [part |-> "symptoms", n |-> Min(5, Cardinality(medical_summary.symptoms))] >>
     ELSE <<>>)
    \o (IF medical_summary.treatments # {}
        THEN << [part |-> "treatments", n |-> Min(5, Cardinality(medical_summary.treatments))] >>
        ELSE <<>>)
    \o (IF medical_summary.causes # {}
        THEN << [part |-> "causes", n |-> Min(5, Cardinality(medical_summary.causes))] >>
        ELSE <<>>)
    \o (IF medical_summary.recent_research # <<>>
        THEN << [part |-> "recent_research",
                 n |-> Min(3, Len(medical_summary.recent_research))] >>
        ELSE <<>>)
    \o (IF community_insights.patient_experiences > 0
        THEN << [part |-> "community_insights"],
                [part |-> "patient_experiences", n |-> community_insights.patient_experiences] >>
        ELSE <<>>)
    \o (IF community_insights.common_questions > 0
        THEN << [part |-> "common_questions", n |-> community_insights.common_questions] >>
        ELSE <<>>)
    \o (IF community_insights.treatment_discussions > 0
        THEN << [part |-> "treatment_discussions",
                 n |-> community_insights.treatment_discussions] >>
        ELSE <<>>)

\* EnhancedRAGPipeline._blend_evidence_and_community
_blend_evidence_and_community(query, condition, medical_summary, community_insights) ==
    [ answer             |-> AnswerParts(medical_summary, community_insights),
      sources            |->
          [i \in DOMAIN medical_summary.recent_research |->
              medical_summary.recent_research[i].journal \o <<" ", "(">>
              \o medical_summary.recent_research[i].year \o <<")">>]
          \o community_insights.sources,
      confidence         |-> _calculate_enhanced_confidence(medical_summary, community_insights),
      evidence_type      |-> "blended",
      community_insights |-> community_insights.community_sources > 0,
      medical_sources    |-> Get(medical_summary, "total_sources", 0),
      community_sources  |-> community_insights.community_sources ]

\* what a call gives its caller: a bundle, or an exception; with it, the
\* pipelines the call went to
Returns(bundle, pipelines) == [raised |-> FALSE, bundle |-> bundle, fetched |-> pipelines]
Raises(pipelines)          == [raised |-> TRUE, bundle |-> EmptyMap, fetched |-> pipelines]

\* EnhancedRAGPipeline.generate_enhanced_response
generate_enhanced_response(query, condition, env) ==
    LET Blended(topic, medical_data, community_insights) ==
            IF medical_data.exc THEN Raises({"live_data_pipeline"})
            ELSE IF community_insights.exc
                 THEN Raises({"live_data_pipeline", "community_pipeline"})
                 ELSE Returns(_blend_evidence_and_community(
                                  query, topic, get_condition_summary(medical_data.v),
                                  community_insights.v),
                              {"live_data_pipeline", "community_pipeline"})
        Respond(topic) ==
            IF Falsy(topic) THEN Returns(_generate_general_response(query), {})
            ELSE Blended(topic, ingest_medical_condition(env, topic),
                         get_condition_summary_with_community(env, topic))
    IN  Respond(IF Falsy(condition) THEN _extract_condition_from_query(query)
                ELSE condition)

-----------------------------------------------------------------------------
(* CitationManager *)

citation_templates ==
    { <<"m", "e", "d", "i", "c", "a", "l", "_", "j", "o", "u", "r", "n", "a", "l">>, <<"w", "e", "b", "s", "i", "t", "e">>, <<"o", "r", "g", "a", "n", "i", "z", "a", "t", "i", "o", "n">>, <<"d", "e", "f", "a", "u", "l", "t">> }

\* the default of max_citations
default_max_citations == 3

\* CitationManager._extract_organization
_extract_organization(metadata) ==
    IF Get(metadata, "sources", <<>>) # <<>> THEN metadata.sources[1]
    ELSE <<"M", "e", "d", "i", "c", "a", "l", " ", "S", "o", "u", "r", "c", "e">>

\* CitationManager._extract_year
_extract_year(metadata) == Get(metadata, "year", <<"2", "0", "2", "4">>)

\* CitationManager._calculate_relevance_score; a document is kept as the
\* length of its page_content and its metadata
_calculate_relevance_score(doc) ==
    Min(Tenths(5)
        + (IF doc.content_length > 500 THEN Tenths(2)
           ELSE IF doc.content_length > 200 THEN Tenths(1) ELSE 0)
        + (IF Get(doc.metadata, "title", <<>>) # <<>>
              /\ Get(doc.metadata, "sources", <<>>) # <<>>
           THEN Tenths(2) ELSE 0)
        + (IF Get(doc.metadata, "type", <<>>) = <<"m", "e", "d", "i", "c", "a", "l", "_", "c", "o", "n", "d", "i", "t", "i", "o", "n">>
           THEN Tenths(1) ELSE 0),
        Scale)

\* CitationManager.extract_sources_from_documents
extract_sources_from_documents(documents) ==
    SortByRelevance([i \in DOMAIN documents |->
        [ title           |-> Get(documents[i].metadata, "title", <<"U", "n", "k", "n", "o", "w", "n", " ", "T", "i", "t", "l", "e">>),
          organization    |-> _extract_organization(documents[i].metadata),
          year            |-> _extract_year(documents[i].metadata),
          url             |-> Get(documents[i].metadata, "url", <<>>),
          type            |-> Get(documents[i].metadata, "type", <<"m", "e", "d", "i", "c", "a", "l", "_", "c", "o", "n", "d", "i", "t", "i", "o", "n">>),
          relevance_score |-> _calculate_relevance_score(documents[i]) ]])

\* self.citation_templates.get(source["type"], self.citation_templates["default"])
Template(source) ==
    IF source.type \in citation_templates THEN source.type ELSE <<"d", "e", "f", "a", "u", "l", "t">>

\* template.format(...) of format_citations
Citation(source) ==
    CASE Template(source) = <<"m", "e", "d", "i", "c", "a", "l", "_", "j", "o", "u", "r", "n", "a", "l">> ->
             Get(source, "author", source.organization) \o <<".", " ", "(">> \o source.year
             \o <<")", ".", " ">> \o source.title \o <<".", " ">> \o Get(source, "journal", <<>>)
             \o <<",", " ">> \o Get(source, "volume", <<>>) \o <<"(">>
             \o Get(source, "issue", <<>>) \o <<")", ",", " ">> \o Get(source, "pages", <<>>)
             \o <<".">>
      [] Template(source) = <<"w", "e", "b", "s", "i", "t", "e">> ->
             source.organization \o <<".", " ", "(">> \o source.year \o <<")", ".", " ">> \o source.title
             \o <<".", " ", "R", "e", "t", "r", "i", "e", "v", "e", "d", " ", "f", "r", "o", "m", " ">> \o Get(source, "url", <<>>)
      [] OTHER ->
             source.organization \o <<".", " ", "(">> \o source.year \o <<")", ".", " ">> \o source.title
             \o <<".">>

\* the keys format_citations reads with source[...]: a source without one of
\* them raises KeyError
KeyError(source) ==
    ~({"type", "organization", "year", "title"} \subseteq DOMAIN source)

\* CitationManager.format_citations raises on one of the sources it formats
format_citations_raises(sources, max_citations) ==
    \E i \in DOMAIN Take(sources, max_citations) : KeyError(sources[i])

\* CitationManager.format_citations, for max_citations >= 0 and sources that
\* have the keys it reads
format_citations(sources, max_citations) ==
    [i \in DOMAIN Take(sources, max_citations) |-> Citation(sources[i])]

RECURSIVE SumRelevance(_)
SumRelevance(sources) ==
    IF sources = <<>> THEN 0
    ELSE Head(sources).relevance_score + SumRelevance(Tail(sources))

calculate_confidence_score_uncapped(sources, response_length) ==
    IF sources = <<>> THEN Tenths(3)
    ELSE (SumRelevance(sources) \div Len(sources))
         + Min(Len(sources) * Tenths(1), Tenths(3))
         + Min((response_length * Tenths(1)) \div 1000, Tenths(2))
\* CitationManager.calculate_confidence_score; the average is rounded down to
\* a multiple of 1/Scale
calculate_confidence_score(sources, response_length) ==
    IF sources = <<>> THEN Tenths(3)
    ELSE Min((SumRelevance(sources) \div Len(sources))
             + Min(Len(sources) * Tenths(1), Tenths(3))
             + Min((response_length * Tenths(1)) \div 1000, Tenths(2)),
             Scale)

-----------------------------------------------------------------------------
(* TrustMedRAGPipeline *)

\* TrustMedRAGPipeline.retrieve_context
retrieve_context == <<>>

\* self.chain.invoke: the model answers or the call raises
chain_invoke(chain) == IF chain = "error" THEN Exc ELSE Ok("generated")

\* TrustMedRAGPipeline._extract_sources
_extract_sources(context) ==
    format_citations(extract_sources_from_documents(context), default_max_citations)

RECURSIVE SumContentLength(_)
SumContentLength(context) ==
    IF context = <<>> THEN 0
    ELSE Head(context).content_length + SumContentLength(Tail(context))

\* TrustMedRAGPipeline._calculate_confidence
_calculate_confidence(context) ==
    calculate_confidence_score(extract_sources_from_documents(context),
                               SumContentLength(context))

\* TrustMedRAGPipeline.generate_response
generate_response(context, chain) ==
    LET Answered(documents, answer) ==
            IF answer.exc
            THEN Returns([ answer |-> "apology", sources |-> <<>>,
                           confidence |-> 0, context_used |-> FALSE ], {})
            ELSE Returns([ answer       |-> answer.v,
                           sources      |-> _extract_sources(documents),
                           confidence   |-> _calculate_confidence(documents),
                           context_used |-> Len(documents) > 0 ], {})
    IN  Answered(IF context = None THEN retrieve_context ELSE context.v,
                 chain_invoke(chain))

-----------------------------------------------------------------------------
(* ContextRetriever and AnswerGenerator *)

\* ContextRetriever._extract_evidence_sources
_extract_evidence_sources(results) ==
    LET Sources(selected) ==
            [i \in DOMAIN selected |->
                [ title      |-> Get(selected[i], "title", <<>>),
                  source     |-> Get(selected[i], "source", <<>>),
                  url        |-> Get(selected[i], "url", <<>>),
                  confidence |-> Get(selected[i], "confidence_score", 0) ]]
    IN  Take(Sources(SelectSeq(results, LAMBDA result :
                 Get(result, "source_type", "") \in {"journal", "health_site"})), 3)

\* ContextRetriever._extract_community_sources
_extract_community_sources(results) ==
    LET Sources(selected) ==
            [i \in DOMAIN selected |->
                [ title  |-> Get(selected[i], "title", <<>>),
                  source |-> Get(selected[i], "source", <<>>),
                  url    |-> Get(selected[i], "url", <<>>),
                  score  |-> Get(selected[i], "score", 0) ]]
    IN  Take(Sources(SelectSeq(results, LAMBDA result :
                 Get(result, "source_type", "") = "community")), 3)

\* the context ContextRetriever.retrieve_context builds of what the index gave
Context(medical_facts, results) ==
    [ medical_facts     |-> medical_facts,
      search_results    |-> results,
      evidence_sources  |-> _extract_evidence_sources(results),
      community_sources |-> _extract_community_sources(results) ]

\* AnswerGenerator._create_citations
_create_citations(context) ==
    [i \in DOMAIN Get(context, "evidence_sources", <<>>) |->
        [ type       |-> "Evidence-based",
          source     |-> context.evidence_sources[i].source,
          title      |-> context.evidence_sources[i].title,
          url        |-> context.evidence_sources[i].url,
          confidence |-> context.evidence_sources[i].confidence ]]
    \o [i \in DOMAIN Get(context, "community_sources", <<>>) |->
        [ type       |-> "Community insight",
          source     |-> context.community_sources[i].source,
          title      |-> context.community_sources[i].title,
          url        |-> context.community_sources[i].url,
          confidence |-> Tenths(5) ]]

\* sum(len(facts) for facts in medical_facts.values())
RECURSIVE FactCount(_)
FactCount(medical_facts) ==
    IF DOMAIN medical_facts = {} THEN 0
    ELSE LET key == CHOOSE k \in DOMAIN medical_facts : TRUE
         IN  Len(medical_facts[key])
             + FactCount([k \in DOMAIN medical_facts \ {key} |-> medical_facts[k]])

\* AnswerGenerator._calculate_confidence
AnswerConfidence(context) ==
    Min(Tenths(3)
        + Min(Len(Get(context, "evidence_sources", <<>>)) * Tenths(2), Tenths(4))
        + Min((FactCount(Get(context, "medical_facts", EmptyMap)) * Tenths(1)) \div 2,
              Tenths(3)),
        Scale)

\* AnswerGenerator._create_answer_text: the builder the query type selects,
\* and whether it finds a fact to tell
_create_answer_text(query_type, context) ==
    [ builder  |-> IF query_type \in {"symptoms", "causes", "treatments"}
                   THEN query_type ELSE "general",
      informed |-> IF query_type \in {"symptoms", "causes", "treatments"}
                   THEN Get(context.medical_facts, query_type, <<>>) # <<>>
                   ELSE \E k \in {"symptoms", "causes", "treatments"} :
                            Get(context.medical_facts, k, <<>>) # <<>> ]

\* AnswerGenerator.generate_answer
generate_answer(processed_query, context) ==
    Returns([ answer           |-> _create_answer_text(processed_query.query_type, context),
              citations        |-> _create_citations(context),
              confidence_score |-> AnswerConfidence(context),
              disclaimer       |-> "disclaimer" ], {})

-----------------------------------------------------------------------------
(* Calls of the response entry points *)

Queries == { <<"D", "i", "a", "b", "e", "t", "e", "s", "?">>, <<"m", "y", " ", "a", "s", "t", "h", "m", "a">>, <<"h", "e", "l", "l", "o">>, <<>> }

Topics == { None, Str(<<>>), Str(<<"f", "l", "u">>) }

\* what the sources do during one call
Envs ==
    { env \in [ esearch : {"error", "ok"}, pmids : {0, 1, MaxArticles},
                efetch : {"error", "ok"},
                mayo : {"error", "none", "broken", "page"},
                webmd : {"error", "none", "page"},
                reddit : {"error", "ok"}, posts : 0..MaxPosts,
                forums : {"error", "ok"}, experiences : 0..MaxPosts,
                threads : {0, 1} ] :
        /\ env.esearch = "error" => env.pmids = 0
        /\ env.pmids = 0 => env.efetch = "ok"
        /\ env.reddit = "error" => env.posts = 0
        /\ env.forums = "error" => env.experiences = 0 /\ env.threads = 0 }

\* documents of a context
Documents ==
    { [content_length |-> n, metadata |-> metadata] :
        n \in {0, 250, 600},
        metadata \in { EmptyMap,
                       [ title |-> <<"F", "l", "u">>, sources |-> << <<"C", "D", "C">> >>,
                         type |-> <<"w", "e", "b", "s", "i", "t", "e">>, url |-> <<"a", ".", "o", "r", "g", "/", "1">> ],
                       [ title |-> <<"F", "l", "u">>, sources |-> << <<"C", "D", "C">> >>,
                         type |-> <<"m", "e", "d", "i", "c", "a", "l", "_", "c", "o", "n", "d", "i", "t", "i", "o", "n">> ] } }

\* sources with any relevance between 0 and 1
ScoredSources ==
    { [ title |-> <<"F", "l", "u">>, organization |-> <<"C", "D", "C">>, year |-> <<"2", "0", "2", "4">>,
        url |-> <<"a", ".", "o", "r", "g", "/", "1">>, type |-> type, relevance_score |-> score ] :
        type \in { <<"w", "e", "b", "s", "i", "t", "e">> }, score \in {0, Tenths(5), Scale} }

\* sources of an organization validate_medical_content holds credible
AuthoritativeSources ==
    { [ title |-> <<"F", "l", "u">>, organization |-> <<"M", "a", "y", "o", " ", "C", "l", "i", "n", "i", "c">>, year |-> <<"2", "0", "2", "4">>,
        url |-> <<"b", ".", "o", "r", "g", "/", "1">>, type |-> <<"w", "e", "b", "s", "i", "t", "e">>, relevance_score |-> score ] :
        score \in {0, Tenths(5)} }

\* the lists of sources calculate_confidence_score is called with
ScoredLists ==
    SeqsUpTo(ScoredSources, MaxDocs)
    \cup SeqsUpTo(AuthoritativeSources
                  \cup {s \in ScoredSources : s.relevance_score = 0}, 2)

\* a source record complete but for one field
PartialSources ==
    { [key \in DOMAIN source \ {missing} |-> source[key]] :
        source \in {s \in ScoredSources : s.relevance_score = Tenths(5)},
        missing \in {"organization", "year", "title", "url", "type"} }

\* lists of sources with at most one record that lacks a field
CitedSources ==
    SeqsUpTo(ScoredSources, MaxDocs)
    \cup { <<partial>> : partial \in PartialSources }
    \cup { <<source, partial>> : source \in ScoredSources, partial \in PartialSources }

\* results of the index as the context retriever reads them
SearchResults ==
    { [source_type |-> source_type, title |-> <<"F", "l", "u">>, source |-> <<"C", "D", "C">>,
       url |-> <<"a", ".", "o", "r", "g", "/", "1">>, confidence_score |-> Tenths(9)] :
        source_type \in {"journal", "community"} }
    \cup { [title |-> <<"F", "l", "u">>] }

MedicalFacts ==
    { EmptyMap,
      [symptoms |-> << <<"f", "e", "v", "e", "r">> >>],
      [symptoms |-> << <<"f", "e", "v", "e", "r">>, <<"c", "o", "u", "g", "h">>, <<"a", "c", "h", "e", "s">>, <<"c", "h", "i", "l", "l", "s">> >>,
       causes |-> << <<"v", "i", "r", "u", "s">>, <<"c", "o", "n", "t", "a", "c", "t">>, <<"s", "e", "a", "s", "o", "n">> >>] }

RespondCalls ==
    [name : {"generate_enhanced_response"}, query : Queries, condition : Topics, env : Envs]
    \cup [name : {"generate_response"}, context : {None} \cup {List(documents) : documents \in SeqsUpTo(Documents, MaxDocs)},
          chain : {"error", "ok"}]
    \cup [name : {"generate_answer"}, query_type : {"symptoms", "general"},
          medical_facts : MedicalFacts, search_results : SeqsUpTo(SearchResults, MaxResults)]
    \cup [name : {"format_citations"}, sources : CitedSources,
          max_citations : 0..MaxCite]
    \cup [name : {"calculate_confidence_score"}, sources : ScoredLists,
          response_length : {0, 1500, 5000}]

NoResponse == [raised |-> FALSE, bundle |-> EmptyMap]

InitRespond ==
    /\ resp_pc = "call"
    /\ call \in RespondCalls
    /\ response = NoResponse
    /\ fetched = {}

\* one call of EnhancedRAGPipeline.generate_enhanced_response
GenerateEnhancedResponse ==
    /\ resp_pc = "call"
    /\ call.name = "generate_enhanced_response"
    /\ \E r \in {generate_enhanced_response(call.query, call.condition, call.env)} :
          /\ response' = [raised |-> r.raised, bundle |-> r.bundle]
          /\ fetched' = r.fetched
    /\ resp_pc' = "done"
    /\ UNCHANGED <<call, cleanVars, ingestVars, searchVars, retryVars, dedupVars, txVars, fetchVars,
                   socketVars, sessionVars>>

\* one call of TrustMedRAGPipeline.generate_response
GenerateResponse ==
    /\ resp_pc = "call"
    /\ call.name = "generate_response"
    /\ \E r \in {generate_response(call.context, call.chain)} :
          /\ response' = [raised |-> r.raised, bundle |-> r.bundle]
          /\ fetched' = r.fetched
    /\ resp_pc' = "done"
    /\ UNCHANGED <<call, cleanVars, ingestVars, searchVars, retryVars, dedupVars, txVars, fetchVars,
                   socketVars, sessionVars>>

\* one call of AnswerGenerator.generate_answer on a retrieved context
GenerateAnswer ==
    /\ resp_pc = "call"
    /\ call.name = "generate_answer"
    /\ \E r \in {generate_answer([query_type |-> call.query_type],
                                 Context(call.medical_facts, call.search_results))} :
          /\ response' = [raised |-> r.raised, bundle |-> r.bundle]
          /\ fetched' = r.fetched
    /\ resp_pc' = "done"
    /\ UNCHANGED <<call, cleanVars, ingestVars, searchVars, retryVars, dedupVars, txVars, fetchVars,
                   socketVars, sessionVars>>

\* one call of CitationManager.format_citations
FormatCitations ==
    /\ resp_pc = "call"
    /\ call.name = "format_citations"
    /\ response' = IF format_citations_raises(call.sources, call.max_citations)
                   THEN [raised |-> TRUE, bundle |-> EmptyMap]
                   ELSE [raised |-> FALSE,
                         bundle |-> format_citations(call.sources, call.max_citations)]
    /\ resp_pc' = "done"
    /\ UNCHANGED <<call, fetched, cleanVars, ingestVars, searchVars, retryVars, dedupVars, txVars, fetchVars,
                   socketVars, sessionVars>>

\* one call of CitationManager.calculate_confidence_score
CalculateConfidenceScore ==
    /\ resp_pc = "call"
    /\ call.name = "calculate_confidence_score"
    /\ response' = [raised |-> FALSE,
                    bundle |-> calculate_confidence_score(call.sources, call.response_length)]
    /\ resp_pc' = "done"
    /\ UNCHANGED <<call, fetched, cleanVars, ingestVars, searchVars, retryVars, dedupVars, txVars, fetchVars,
                   socketVars, sessionVars>>

NextRespond ==
    \/ GenerateEnhancedResponse
    \/ GenerateResponse
    \/ GenerateAnswer
    \/ FormatCitations
    \/ CalculateConfidenceScore

IdleRespond ==
    /\ resp_pc = "idle"
    /\ call = <<>>
    /\ response = NoResponse
    /\ fetched = {}
-----------------------------------------------------------------------------
(* BaseScraper.retry_request *)

\* utils/config.py, in seconds
SCRAPING_DELAY == 1
MAX_RETRIES    == 3

\* what one invocation of the wrapped function does: it returns a value, which
\* may be None, or raises an Exception
FuncReturns == { Str(<<"<", "h", "t", "m", "l", ">">>), None }
FuncRaises  == { "Timeout", "ConnectionError", "HTTPError", "ValueError" }
FuncOutcomes ==
    [raised : {FALSE}, value : FuncReturns] \cup [raised : {TRUE}, error : FuncRaises]

RECURSIVE Pow2(_)
Pow2(n) == IF n = 0 THEN 1 ELSE 2 * Pow2(n - 1)

\* wait_time = (2 ** attempt) * SCRAPING_DELAY
wait_time(n) == Pow2(n) * SCRAPING_DELAY

except_Exception_reraising(n) ==
    IF n = MAX_RETRIES - 1 THEN "raised" ELSE "sleep"
\* the except clause of retry_request: where the call goes after func raised
\* on the given attempt
except_Exception(n) ==
    IF n = MAX_RETRIES - 1 THEN "returned" ELSE "sleep"

InitRetry ==
    /\ retry_pc = "attempt"
    /\ attempt = 0
    /\ func_log = <<>>
    /\ slept = <<>>
    /\ retry_result = None

\* try: return func(*args, **kwargs), and the except clause up to the sleep
InvokeFunc ==
    /\ retry_pc = "attempt"
    /\ attempt < MAX_RETRIES
    /\ \E outcome \in FuncOutcomes :
          /\ func_log' = Append(func_log, outcome)
          /\ IF outcome.raised
             THEN /\ retry_pc' = except_Exception(attempt)
                  /\ retry_result' = None
             ELSE /\ retry_pc' = "returned"
                  /\ retry_result' = outcome.value
    /\ UNCHANGED <<attempt, slept, cleanVars, ingestVars, searchVars, respondVars,
                   dedupVars, txVars, fetchVars,
                   socketVars, sessionVars>>

\* time.sleep(wait_time), then the next turn of the loop; the loop ends, and
\* None is returned, when range(MAX_RETRIES) is used up
Sleep ==
    /\ retry_pc = "sleep"
    /\ slept' = Append(slept, wait_time(attempt))
    /\ attempt' = attempt + 1
    /\ retry_pc' = IF attempt + 1 < MAX_RETRIES THEN "attempt" ELSE "returned"
    /\ UNCHANGED <<func_log, retry_result, cleanVars, ingestVars, searchVars,
                   respondVars, dedupVars, txVars, fetchVars,
                   socketVars, sessionVars>>

NextRetry ==
    \/ InvokeFunc
    \/ Sleep

IdleRetry ==
    /\ retry_pc = "idle"
    /\ attempt = 0
    /\ func_log = <<>>
    /\ slept = <<>>
    /\ retry_result = None
-----------------------------------------------------------------------------
(* DataCleaner.deduplicate_data *)

\* the loop of deduplicate_data over what is left of the list
RECURSIVE UniqueFrom(_, _)
UniqueFrom(list, seen_urls) ==
    IF list = <<>> THEN <<>>
    ELSE IF Get(Head(list), "url", <<>>) # <<>>
            /\ Get(Head(list), "url", <<>>) \notin seen_urls
         THEN <<Head(list)>>
              \o UniqueFrom(Tail(list), seen_urls \cup {Get(Head(list), "url", <<>>)})
         ELSE UniqueFrom(Tail(list), seen_urls)

\* DataCleaner.deduplicate_data
deduplicate_data(list) == UniqueFrom(list, {})

\* scraped records: two urls, retrieved at one of two times, a record with an
\* empty url and a record with none
ScrapedData ==
    { [url |-> url, scraped_at |-> t] :
        url \in { <<"a", ".", "o", "r", "g", "/", "1">>, <<"a", ".", "o", "r", "g", "/", "2">> }, t \in {1, 2} }
    \cup { [url |-> <<>>, scraped_at |-> 1], [scraped_at |-> 2] }

InitDedup ==
    /\ dedup_pc = "call"
    /\ data_list \in SeqsUpTo(ScrapedData, MaxData)
    /\ unique_data = <<>>

\* one call of DataCleaner.deduplicate_data
DeduplicateData ==
    /\ dedup_pc = "call"
    /\ unique_data' = deduplicate_data(data_list)
    /\ dedup_pc' = "done"
    /\ UNCHANGED <<data_list, cleanVars, ingestVars, searchVars, respondVars, retryVars, txVars, fetchVars,
                   socketVars, sessionVars>>

NextDedup == DeduplicateData

IdleDedup ==
    /\ dedup_pc = "idle"
    /\ data_list = <<>>
    /\ unique_data = <<>>
-----------------------------------------------------------------------------
(* MedicalDatabase.add_entry next to a reader of medical_entries *)

ReadUncommitted(committed, uncommitted) == uncommitted
\* the rows a reader on a connection of its own is shown while a transaction
\* of another connection is open: those of the last commit
ReadCommitted(committed, uncommitted) == committed

\* the record of a url as a reader finds it in the rows it is shown
RecordsAt(rows, url) == {row.values : row \in {r \in rows : r.values.url = url}}

\* the table before the upsert: empty, or one row of an earlier upsert
EarlierTables ==
    {{}} \cup {add_entry({}, 0, record).table : record \in RawRecords}

NoTransaction == [pc |-> "idle"]

InitTx ==
    /\ db \in EarlierTables
    /\ db_seq = Cardinality(db)
    /\ tx \in [pc : {"begin"}, data : RawRecords, before : {db}, pending : {db}]
    /\ observed = {}

\* cursor.execute, first half: INSERT OR REPLACE deletes the rows that
\* conflict on url, inside the transaction the statement opened
DeleteConflicting ==
    /\ tx.pc = "begin"
    /\ tx' = [tx EXCEPT !.pc = "deleted",
                        !.pending = {row \in db : row.values.url
                                                  # RowValues(ListsToJson(tx.data)).url}]
    /\ UNCHANGED <<observed, cleanVars, ingestVars, searchVars, respondVars, retryVars,
                   dedupVars, fetchVars, socketVars, sessionVars>>

\* cursor.execute, second half: the new row is inserted
InsertRow ==
    /\ tx.pc = "deleted"
    /\ tx' = [tx EXCEPT !.pc = "inserted",
                        !.pending = tx.pending
                                    \cup {[id |-> db_seq + 1,
                                           values |-> RowValues(ListsToJson(tx.data))]}]
    /\ UNCHANGED <<observed, cleanVars, ingestVars, searchVars, respondVars, retryVars,
                   dedupVars, fetchVars, socketVars, sessionVars>>

\* conn.commit()
Commit ==
    /\ tx.pc = "inserted"
    /\ db' = tx.pending
    /\ db_seq' = db_seq + 1
    /\ tx' = [tx EXCEPT !.pc = "committed"]
    /\ UNCHANGED <<observed, collection, dup_raises, op, nops, last_db, last_vec,
                   cleanVars, searchVars, respondVars, retryVars, dedupVars,
                   fetchVars, socketVars, sessionVars>>

\* a reader, on a connection of its own, selects the rows of the url
Read ==
    /\ observed' = observed \cup {RecordsAt(ReadCommitted(db, tx.pending),
                                    RowValues(ListsToJson(tx.data)).url)}
    /\ UNCHANGED <<tx, cleanVars, ingestVars, searchVars, respondVars, retryVars,
                   dedupVars, fetchVars, socketVars, sessionVars>>

NextTx ==
    \/ DeleteConflicting
    \/ InsertRow
    \/ Commit
    \/ Read

IdleTx ==
    /\ tx = NoTransaction
    /\ observed = {}
-----------------------------------------------------------------------------
(* PubMedClient.fetch_recent_medical_articles, one condition, with the clock *)

\* self.rate_limit_delay = 0.5, in tenths of a second
rate_limit_delay == 5

\* time.sleep(2) between conditions, in tenths of a second
condition_pause == 20

\* a request sent to eutils.ncbi.nlm.nih.gov
Request(endpoint, at, ok) == [endpoint |-> endpoint, at |-> at, ok |-> ok]

InitFetch ==
    /\ fetch_pc = "search"
    /\ pmids_left = 0
    /\ now = 0
    /\ request_log = <<>>

\* self.search_articles(condition, ...): one esearch request; the PMIDs it
\* returns, of which pmids[:20] are fetched, or [] when the request fails
SearchArticles ==
    /\ fetch_pc = "search"
    /\ \E ok \in BOOLEAN : \E n \in 0..MaxPmids :
          /\ ~ok => n = 0
          /\ request_log' = Append(request_log, Request("esearch", now, ok))
          /\ pmids_left' = Min(n, 20)
          /\ fetch_pc' = IF n > 0 THEN "details" ELSE "pause"
    /\ UNCHANGED <<now, cleanVars, ingestVars, searchVars, respondVars, retryVars,
                   dedupVars, txVars, socketVars, sessionVars>>

\* self.get_article_details(pmid): one efetch request; time.sleep of the
\* rate limit follows the parsing of the answer and is skipped when the
\* request raises
GetArticleDetails ==
    /\ fetch_pc = "details"
    /\ pmids_left > 0
    /\ \E ok \in BOOLEAN :
          /\ request_log' = Append(request_log, Request("efetch", now, ok))
          /\ now' = IF ok THEN now + rate_limit_delay ELSE now
    /\ pmids_left' = pmids_left - 1
    /\ fetch_pc' = IF pmids_left = 1 THEN "pause" ELSE "details"
    /\ UNCHANGED <<cleanVars, ingestVars, searchVars, respondVars, retryVars,
                   dedupVars, txVars, socketVars, sessionVars>>

\* time.sleep(2) at the end of the turn of the loop over the conditions
PauseBetweenConditions ==
    /\ fetch_pc = "pause"
    /\ now' = now + condition_pause
    /\ fetch_pc' = "done"
    /\ UNCHANGED <<pmids_left, request_log, cleanVars, ingestVars, searchVars, respondVars,
                   retryVars, dedupVars, txVars, socketVars, sessionVars>>

NextFetch ==
    \/ SearchArticles
    \/ GetArticleDetails
    \/ PauseBetweenConditions

IdleFetch ==
    /\ fetch_pc = "idle"
    /\ pmids_left = 0
    /\ now = 0
    /\ request_log = <<>>
-----------------------------------------------------------------------------
(* websocket_endpoint and WebSocketManager *)

Websockets == 1..MaxConnections

\* WebSocketManager.disconnect: list.remove of the websocket when it is in
\* the list
RECURSIVE disconnect(_, _)
disconnect(connections, websocket) ==
    IF connections = <<>> THEN <<>>
    ELSE IF Head(connections) = websocket THEN Tail(connections)
    ELSE <<Head(connections)>> \o disconnect(Tail(connections), websocket)

\* WebSocketManager.send_message: the list after the send, which disconnects
\* the websocket when send_text raises
send_message(connections, websocket, sent) ==
    IF sent THEN connections ELSE disconnect(connections, websocket)

\* the sends of broadcast, one per connection of the copy of the list
RECURSIVE SendEach(_, _, _)
SendEach(connections, copy, failing) ==
    IF copy = <<>> THEN connections
    ELSE SendEach(send_message(connections, Head(copy), Head(copy) \notin failing),
                  Tail(copy), failing)

InitSocket ==
    /\ active_connections = <<>>
    /\ handler = [websocket \in Websockets |-> "new"]

\* websocket_manager.connect: accept, which may raise, then append
Connect(websocket) ==
    /\ handler[websocket] = "new"
    /\ \E accepted \in BOOLEAN :
          IF accepted
          THEN /\ active_connections' = Append(active_connections, websocket)
               /\ handler' = [handler EXCEPT ![websocket] = "receiving"]
          ELSE /\ handler' = [handler EXCEPT ![websocket] = "ended"]
               /\ UNCHANGED active_connections
    /\ UNCHANGED <<cleanVars, ingestVars, searchVars, respondVars, retryVars,
                   dedupVars, txVars, fetchVars, sessionVars>>

\* one turn of the loop on a chat message: the response is sent with
\* send_message, and the loop goes on whether or not the send failed
Chat(websocket) ==
    /\ handler[websocket] = "receiving"
    /\ \E sent \in BOOLEAN :
          active_connections' = send_message(active_connections, websocket, sent)
    /\ UNCHANGED <<handler, cleanVars, ingestVars, searchVars, respondVars, retryVars,
                   dedupVars, txVars, fetchVars, sessionVars>>

\* receive_text raises WebSocketDisconnect
ClientDisconnect(websocket) ==
    /\ handler[websocket] = "receiving"
    /\ active_connections' = disconnect(active_connections, websocket)
    /\ handler' = [handler EXCEPT ![websocket] = "ended"]
    /\ UNCHANGED <<cleanVars, ingestVars, searchVars, respondVars, retryVars,
                   dedupVars, txVars, fetchVars, sessionVars>>

\* any other exception in the loop, of json.loads, of message_data.get, of the
\* pipeline or of receive_text: send_error, then the handler returns
ProcessingError(websocket) ==
    /\ handler[websocket] = "receiving"
    /\ \E sent \in BOOLEAN :
          active_connections' = send_message(active_connections, websocket, sent)
    /\ handler' = [handler EXCEPT ![websocket] = "ended"]
    /\ UNCHANGED <<cleanVars, ingestVars, searchVars, respondVars, retryVars,
                   dedupVars, txVars, fetchVars, sessionVars>>

\* WebSocketManager.broadcast
Broadcast ==
    /\ active_connections # <<>>
    /\ \E failing \in SUBSET {active_connections[i] : i \in DOMAIN active_connections} :
          active_connections' = SendEach(active_connections, active_connections, failing)
    /\ UNCHANGED <<handler, cleanVars, ingestVars, searchVars, respondVars, retryVars,
                   dedupVars, txVars, fetchVars, sessionVars>>

NextSocket ==
    \/ \E websocket \in Websockets : Connect(websocket)
    \/ \E websocket \in Websockets : Chat(websocket)
    \/ \E websocket \in Websockets : ClientDisconnect(websocket)
    \/ \E websocket \in Websockets : ProcessingError(websocket)
    \/ Broadcast

IdleSocket ==
    /\ active_connections = <<>>
    /\ handler = <<>>
-----------------------------------------------------------------------------
(* ChatManager *)

\* the half seconds of a second
HalvesPerSecond == 2

\* f"session_{datetime.now().strftime('%Y%m%d_%H%M%S')}": the id names the
\* second the clock is in, and is modelled by the number of that second
SessionId(time) == time \div HalvesPerSecond

medical_conditions ==
    << <<"d", "i", "a", "b", "e", "t", "e", "s">>, <<"h", "y", "p", "e", "r", "t", "e", "n", "s", "i", "o", "n">>, <<"c", "a", "n", "c", "e", "r">>, <<"h", "e", "a", "r", "t", " ", "d", "i", "s", "e", "a", "s", "e">>, <<"s", "t", "r", "o", "k", "e">>,
       <<"d", "e", "p", "r", "e", "s", "s", "i", "o", "n">>, <<"a", "n", "x", "i", "e", "t", "y">>, <<"a", "r", "t", "h", "r", "i", "t", "i", "s">>, <<"a", "s", "t", "h", "m", "a">>, <<"m", "i", "g", "r", "a", "i", "n", "e">> >>

\* str.upper() on one character
UpperChar(c) ==
    IF \E i \in DOMAIN LowerCs : LowerCs[i] = c
    THEN UpperCs[CHOOSE i \in DOMAIN LowerCs : LowerCs[i] = c]
    ELSE c

\* str.title() of a lower-case text of words and spaces
Title(text) ==
    [i \in DOMAIN text |->
        IF i = 1 \/ text[IF i = 1 THEN 1 ELSE i - 1] = " "
        THEN UpperChar(text[i]) ELSE text[i]]

\* ChatManager._extract_topics
_extract_topics(message) ==
    {Title(medical_conditions[i]) :
        i \in {j \in DOMAIN medical_conditions :
                 Contains(Lower(message), medical_conditions[j])}}

\* the session create_session files under its id
NewSession(session_id, time) ==
    [ id |-> session_id, created_at |-> time, messages |-> <<>>, topics |-> {},
      total_queries |-> 0, confidence_scores |-> <<>> ]

\* ChatManager.create_session: the sessions after the call
create_session(all_sessions, time) ==
    SetItem(all_sessions, SessionId(time), NewSession(SessionId(time), time))

\* ChatManager.add_message: the sessions after the call
add_message(all_sessions, session_id, user_message, bot_response, time) ==
    IF session_id \notin DOMAIN all_sessions THEN all_sessions
    ELSE [all_sessions EXCEPT ![session_id] =
             [ @ EXCEPT !.messages = Append(@, [ timestamp    |-> time,
                                                  user_message |-> user_message,
                                                  bot_response |-> bot_response,
                                                  confidence   |->
                                                      Get(bot_response,
                                                          "confidence_score", 0) ]),
                        !.total_queries = @ + 1,
                        !.confidence_scores =
                            Append(@, Get(bot_response, "confidence_score", 0)),
                        !.topics = @ \cup _extract_topics(user_message) ]]

UserMessages == { <<"m", "y", " ", "a", "s", "t", "h", "m", "a">>, <<"h", "e", "l", "l", "o">> }

BotResponses == { [answer |-> "generated", confidence_score |-> Tenths(8)] }

InitSession ==
    /\ sessions = EmptyMap
    /\ current_session_id = None
    /\ clock = 0

\* half a second passes
Tick ==
    /\ clock < MaxClock
    /\ clock' = clock + 1
    /\ UNCHANGED <<sessions, current_session_id, cleanVars, ingestVars, searchVars,
                   respondVars, retryVars, dedupVars, txVars, fetchVars, socketVars>>

\* one call of ChatManager.create_session, by start_new_session or clear_chat
CreateSession ==
    /\ sessions' = create_session(sessions, clock)
    /\ current_session_id' = Str(SessionId(clock))
    /\ UNCHANGED <<clock, cleanVars, ingestVars, searchVars, respondVars, retryVars,
                   dedupVars, txVars, fetchVars, socketVars>>

\* one call of ChatManager.add_message on a session of the manager
AddMessage ==
    /\ \E session_id \in DOMAIN sessions :
        \E user_message \in UserMessages : \E bot_response \in BotResponses :
          /\ Len(sessions[session_id].messages) < MaxMessages
          /\ sessions' = add_message(sessions, session_id, user_message,
                                     bot_response, clock)
    /\ UNCHANGED <<current_session_id, clock, cleanVars, ingestVars, searchVars,
                   respondVars, retryVars, dedupVars, txVars, fetchVars, socketVars>>

NextSession ==
    \/ Tick
    \/ CreateSession
    \/ AddMessage

IdleSession ==
    /\ sessions = EmptyMap
    /\ current_session_id = None
    /\ clock = 0
-----------------------------------------------------------------------------
(* The facet lists given to _clean_list *)

RawFacets ==
    { <<"T", "h", "i", "r", "s", "t">>, <<"t", "h", "i", "r", "s", "t", " ">>, <<" ", "T", "H", "I", "R", "S", "T">>, <<"T", "h", "i">>, <<"P", "a", "i", "n">>,
      <<"P", "a", "i", "n", " ", "(", "m", "i", "l", "d", ")">>, <<"d", "r", "y", " ", " ", "m", "o", "u", "t", "h">>, <<"D", "r", "y", " ", "m", "o", "u", "t", "h", " ", "[", "1", "]">>, <<"(", "x", ")">> }

FacetLists == SeqsUpTo(RawFacets, MaxItems)

InitClean ==
    /\ clean_pc = "call"
    /\ items \in FacetLists
    /\ unique_items = <<>>

\* one call of DataCleaner._clean_list
clean_list ==
    /\ clean_pc = "call"
    /\ clean_pc' = "done"
    /\ unique_items' = _clean_list(items)
    /\ UNCHANGED <<items, ingestVars, searchVars, respondVars, retryVars, dedupVars, txVars,
                   fetchVars, socketVars, sessionVars>>

NextClean == clean_list
-----------------------------------------------------------------------------
(* The specifications *)

IdleClean ==
    /\ clean_pc = "idle"
    /\ items = <<>>
    /\ unique_items = <<>>

IdleIngest ==
    /\ db = {}
    /\ db_seq = 0
    /\ collection = EmptyMap
    /\ dup_raises = FALSE
    /\ op = NoCall
    /\ nops = 0
    /\ last_db = EmptyMap
    /\ last_vec = EmptyMap

\* calls of DataCleaner._clean_list
CleanInit == InitClean /\ IdleIngest /\ IdleSearch /\ IdleRespond
             /\ IdleRetry /\ IdleDedup
             /\ IdleTx /\ IdleFetch /\ IdleSocket /\ IdleSession
SpecClean == CleanInit /\ [][NextClean]_vars

\* runs of the ingestion path, DataPipeline.process_and_store
IngestInit == InitIngest /\ IdleClean /\ IdleSearch /\ IdleRespond
             /\ IdleRetry /\ IdleDedup
             /\ IdleTx /\ IdleFetch /\ IdleSocket /\ IdleSession
SpecIngest == IngestInit /\ [][NextIngest]_vars

\* direct upserts into the two stores
SpecUpsert == IngestInit /\ [][NextUpsert]_vars

\* calls of HybridSearch.search
SearchInit == InitSearch /\ IdleClean /\ IdleIngest /\ IdleRespond
             /\ IdleRetry /\ IdleDedup
             /\ IdleTx /\ IdleFetch /\ IdleSocket /\ IdleSession
SpecSearch == SearchInit /\ [][NextSearch]_vars

\* calls of the entry points that return a response
RespondInit == InitRespond /\ IdleClean /\ IdleIngest /\ IdleSearch
             /\ IdleRetry /\ IdleDedup
             /\ IdleTx /\ IdleFetch /\ IdleSocket /\ IdleSession
SpecRespond == RespondInit /\ [][NextRespond]_vars

\* calls of BaseScraper.retry_request
RetryInit == InitRetry /\ IdleClean /\ IdleIngest /\ IdleSearch /\ IdleRespond
             /\ IdleDedup
             /\ IdleTx /\ IdleFetch /\ IdleSocket /\ IdleSession
SpecRetry == RetryInit /\ [][NextRetry]_vars

\* calls of DataCleaner.deduplicate_data
DedupInit == InitDedup /\ IdleClean /\ IdleIngest /\ IdleSearch /\ IdleRespond
             /\ IdleRetry
             /\ IdleTx /\ IdleFetch /\ IdleSocket /\ IdleSession
SpecDedup == DedupInit /\ [][NextDedup]_vars

\* one upsert into medical_entries while readers select from it
TxInit == InitTx /\ collection = EmptyMap /\ dup_raises = FALSE /\ op = NoCall
          /\ nops = 0 /\ last_db = EmptyMap /\ last_vec = EmptyMap
          /\ IdleClean /\ IdleSearch /\ IdleRespond /\ IdleRetry /\ IdleDedup
          /\ IdleFetch /\ IdleSocket /\ IdleSession
SpecTx == TxInit /\ [][NextTx]_vars

\* one condition fetched from PubMed
FetchInit == InitFetch /\ IdleClean /\ IdleIngest /\ IdleSearch /\ IdleRespond
             /\ IdleRetry /\ IdleDedup /\ IdleTx /\ IdleSocket /\ IdleSession
SpecFetch == FetchInit /\ [][NextFetch]_vars

\* websockets that connect to /ws
SocketInit == InitSocket /\ IdleClean /\ IdleIngest /\ IdleSearch /\ IdleRespond
              /\ IdleRetry /\ IdleDedup /\ IdleTx /\ IdleFetch /\ IdleSession
SpecSocket == SocketInit /\ [][NextSocket]_vars

\* sessions of the chat manager
SessionInit == InitSession /\ IdleClean /\ IdleIngest /\ IdleSearch /\ IdleRespond
               /\ IdleRetry /\ IdleDedup /\ IdleTx /\ IdleFetch /\ IdleSocket
SpecSession == SessionInit /\ [][NextSession]_vars
-----------------------------------------------------------------------------
(* Properties of the normaliser and of the two stores *)

\* the value of a facet string as _clean_list compares it
FacetKey(item) == Lower(Strip(item))

\* the first position of the argument whose cleaned form has the key of entry
FirstSeen(entry) ==
    CHOOSE k \in DOMAIN items :
        /\ FacetKey(_clean_text(items[k])) = FacetKey(entry)
        /\ \A m \in 1..(k - 1) : FacetKey(_clean_text(items[m])) # FacetKey(entry)

\* C7: the list _clean_list returns holds exactly one entry per value of the
\* argument, compared case-insensitively after cleaning and trimming; every
\* entry is the first-seen form of its value, the entries keep the order in
\* which their values were first seen, and no entry is shorter than 4 characters
C7_FacetsDeduplicated ==
    clean_pc = "done" =>
        /\ \A i, j \in DOMAIN unique_items :
              FacetKey(unique_items[i]) = FacetKey(unique_items[j]) => i = j
        /\ \A i \in DOMAIN unique_items : Len(unique_items[i]) >= 4
        /\ \A k \in DOMAIN items :
              Len(_clean_text(items[k])) >= 4 =>
                  \E i \in DOMAIN unique_items :
                      FacetKey(unique_items[i]) = FacetKey(_clean_text(items[k]))
        /\ \A i \in DOMAIN unique_items :
              /\ \E k \in DOMAIN items :
                    FacetKey(_clean_text(items[k])) = FacetKey(unique_items[i])
              /\ unique_items[i] = _clean_text(items[FirstSeen(unique_items[i])])
        /\ \A i, j \in DOMAIN unique_items :
              i < j => FirstSeen(unique_items[i]) < FirstSeen(unique_items[j])

\* "Thirst" and "thirst " were given together with a short entry and a later
\* distinct value, and one entry came back for the two spellings
C7_CaseVariantsGiven ==
    /\ clean_pc = "done"
    /\ items = << <<"T", "h", "i", "r", "s", "t">>, <<"t", "h", "i", "r", "s", "t", " ">>, <<"P", "a", "i", "n", " ", "(", "m", "i", "l", "d", ")">> >>
    /\ unique_items = << <<"T", "h", "i", "r", "s", "t">>, <<"P", "a", "i", "n">> >>

\* a raw record is well formed: it has a non-empty title, source name and url
WellFormed(record) ==
    \A field \in {"title", "source", "url"} : Truthy(Get(record, field, None))

\* the rows of the structured index filed under a url
RowsOf(url) == {row \in db : row.values.url = url}

\* the documents of the semantic index filed under a url
DocsOf(url) == {id \in DOMAIN collection : collection[id].metadata.url = url}

\* C1: after the ingestion path ran twice on a well-formed raw record, one row
\* of the structured index and one document of the semantic index have its url
C1_IdempotentIngestion ==
    op.name = "process_and_store" =>
        \A record \in RawRecords :
            (WellFormed(record) /\ op.data = <<record, record>>) =>
                /\ Cardinality(RowsOf(record.url)) = 1
                /\ Cardinality(DocsOf(record.url)) = 1

\* the records of a batch that miss a title, a url or a source name
Rejected(data) == {i \in DOMAIN data : ~WellFormed(data[i])}

\* no row and no document lacks a title, a source name or a url
NothingIncompleteStored ==
    /\ \A row \in db :
          /\ row.values.title.v # <<>>
          /\ row.values.source.v # <<>>
          /\ row.values.url.v # <<>>
    /\ \A id \in DOMAIN collection :
          /\ collection[id].metadata.source.v # <<>>
          /\ collection[id].metadata.url.v # <<>>
          /\ HasPrefix(collection[id].document, <<"T", "i", "t", "l", "e", ":", " ">>)

\* the records of a batch that miss a field added nothing to either store
CorpusGrowsByAcceptedOnly ==
    /\ Cardinality(db) - Cardinality(op.db_before)
           <= Len(op.data) - Cardinality(Rejected(op.data))
    /\ Cardinality(DOMAIN collection) - Cardinality(DOMAIN op.collection_before)
           <= Len(op.data) - Cardinality(Rejected(op.data))
    /\ Rejected(op.data) = DOMAIN op.data =>
           db = op.db_before /\ collection = op.collection_before

C10_OneRecordPerUrl ==
    /\ \A url \in DOMAIN last_db :
          /\ Cardinality(RowsOf(url)) = 1
          /\ \A row \in RowsOf(url) : row.values = RowValues(ListsToJson(last_db[url]))
    /\ \A url \in DOMAIN last_vec :
          /\ Cardinality(DocsOf(url)) = 1
          /\ \A id \in DocsOf(url) :
                collection[id] = [ document |-> SearchText(last_vec[url]),
                                   metadata |-> Metadata(last_vec[url]) ]
-----------------------------------------------------------------------------
(* Properties of the hybrid search *)

Max(a, b) == IF a >= b THEN a ELSE b

\* the url a combined result is filed under
UrlOf(result) ==
    IF "url" \in DOMAIN result THEN result.url ELSE result.metadata.url

\* the hits of a list with a url
HitsOf(results, url) == {i \in DOMAIN results : UrlOf(results[i]) = url}

\* C2: a url that is the url of one structured hit and of one semantic hit has
\* a single result in the combined list; the relevance of that result is the
\* higher of 0.8 and 1 - distance, and its origin is "both"
C2_MergedByUrl ==
    search_pc = "done" =>
        \A i \in DOMAIN search_call.structured_results :
            \A j \in DOMAIN search_call.semantic_results :
                ( /\ UrlOf(search_call.semantic_results[j])
                         = search_call.structured_results[i].url
                  /\ HitsOf(search_call.structured_results,
                            search_call.structured_results[i].url) = {i}
                  /\ HitsOf(search_call.semantic_results,
                            search_call.structured_results[i].url) = {j} )
                => /\ Cardinality(HitsOf(combined_results,
                                         search_call.structured_results[i].url)) = 1
                   /\ \A k \in HitsOf(combined_results,
                                      search_call.structured_results[i].url) :
                         /\ combined_results[k].relevance_score
                                = Max(Tenths(8),
                                      Scale - Get(search_call.semantic_results[j],
                                                  "distance", Tenths(5)))
                         /\ combined_results[k].search_type = "both"

-----------------------------------------------------------------------------
(* Properties of the responses *)

\* the confidence a call returned
Confidence ==
    CASE call.name = "generate_answer"            -> response.bundle.confidence_score
      [] call.name = "calculate_confidence_score" -> response.bundle
      [] OTHER                                    -> response.bundle.confidence

\* the citation list a call returned
Citations ==
    CASE call.name = "generate_answer"  -> response.bundle.citations
      [] call.name = "format_citations" -> response.bundle
      [] OTHER                          -> response.bundle.sources

\* the max_citations a call was given, by default 3
MaxCitations ==
    IF call.name = "format_citations" THEN call.max_citations
    ELSE default_max_citations

C4_CitationCountBound ==
    (resp_pc = "done" /\ call.name # "calculate_confidence_score") =>
        Len(Citations) <= MaxCitations

\* the sources when every failure is replaced by a source that answers and
\* has nothing to give
Calm(env) ==
    [ esearch |-> "ok",
      pmids   |-> IF env.esearch = "error" \/ env.efetch = "error" THEN 0 ELSE env.pmids,
      efetch  |-> "ok",
      mayo    |-> IF env.mayo \in {"error", "broken"} THEN "none" ELSE env.mayo,
      webmd   |-> IF env.webmd \in {"error", "broken"} THEN "none" ELSE env.webmd,
      reddit  |-> "ok",
      posts   |-> IF env.reddit = "error" THEN 0 ELSE env.posts,
      forums  |-> "ok",
      experiences |-> IF env.forums = "error" THEN 0 ELSE env.experiences,
      threads |-> IF env.forums = "error" THEN 0 ELSE env.threads ]

\* C5: generate_enhanced_response and generate_response never raise: whatever
\* fails, a fetch of a source or the generation, the call returns a bundle, and
\* the bundle is the one that is returned when the failing source has nothing
\* to give; when the generation fails the bundle has no source, confidence 0
\* and no context
C5_NeverRaises ==
    (resp_pc = "done"
     /\ call.name \in {"generate_enhanced_response", "generate_response"}) =>
        /\ ~response.raised
        /\ {"answer", "sources", "confidence"} \subseteq DOMAIN response.bundle
        /\ call.name = "generate_enhanced_response" =>
               response.bundle
                   = generate_enhanced_response(call.query, call.condition,
                                                Calm(call.env)).bundle
        /\ (call.name = "generate_response" /\ call.chain = "error") =>
               /\ response.bundle.sources = <<>>
               /\ response.bundle.confidence = 0
               /\ ~response.bundle.context_used

\* every source but WebMD failed during a call for diabetes, and the bundle
\* came back with the one source that answered
C5_AllButOneSourceFailed ==
    /\ resp_pc = "done"
    /\ call.name = "generate_enhanced_response"
    /\ call.query = <<"D", "i", "a", "b", "e", "t", "e", "s", "?">>
    /\ call.env.esearch = "error"
    /\ call.env.mayo = "error"
    /\ call.env.webmd = "page"
    /\ call.env.reddit = "error"
    /\ call.env.forums = "error"
    /\ ~response.raised
    /\ response.bundle.evidence_type = "blended"
    /\ response.bundle.medical_sources = 1
    /\ response.bundle.community_sources = 0

\* no source gave anything to a call: nothing was retrieved for the topic of
\* an enhanced response, or the context of a generated response is empty
NoEvidence ==
    \/ /\ call.name = "generate_enhanced_response"
       /\ response.bundle.evidence_type = "blended"
       /\ response.bundle.medical_sources = 0
       /\ response.bundle.community_sources = 0
    \/ /\ call.name = "generate_response"
       /\ call.chain = "ok"
       /\ ~response.bundle.context_used

\* C8: when nothing was retrieved, the bundle has confidence 0.3 and an empty
\* citation list
C8_NoEvidenceFloor ==
    (resp_pc = "done" /\ NoEvidence) =>
        /\ response.bundle.confidence = Tenths(3)
        /\ response.bundle.sources = <<>>

\* the query names one of the conditions the pipeline knows
Recognisable(query) ==
    \E i \in DOMAIN conditions : Contains(Lower(query), conditions[i])

-----------------------------------------------------------------------------
(* Properties of the ranking and of the truncation *)

\* the lists holding the entries of a list, in every order
Reorderings(list) ==
    {[i \in DOMAIN list |-> list[p[i]]] :
        p \in {q \in [DOMAIN list -> DOMAIN list] :
                 \A i, j \in DOMAIN list : i # j => q[i] # q[j]}}

\* C11: the order of the combined list is a function of the set of hits the
\* two indexes returned: the same hits supplied in any other order give the
\* same combined list
C11_OrderIndependentOfInput ==
    search_pc = "done" =>
        \A structured \in Reorderings(search_call.structured_results) :
            \A semantic \in Reorderings(search_call.semantic_results) :
                _combine_results(structured, semantic) = combined_results

\* one of the two indexes failed during the call, the other answered
ExactlyOneIndexFailed ==
    (search_call.structured = "error") # (search_call.semantic = "error")

\* C13: when exactly one of the two indexes fails during a search, the search
\* returns the hits of the other index, ranked and cut to n_results
C13_OtherIndexStillAnswers ==
    (search_pc # "call" /\ ExactlyOneIndexFailed) =>
        /\ search_pc = "done"
        /\ search_results = search(search_call.structured_results,
                                   search_call.semantic_results,
                                   search_call.n_results)

\* C18: every result of a merge has a relevance between 0 and 1
C18_RelevanceInUnitRange ==
    search_pc = "done" =>
        \A k \in DOMAIN combined_results :
            /\ combined_results[k].relevance_score >= 0
            /\ combined_results[k].relevance_score <= Scale

\* the number of entries of a list that are a given value
Count(list, value) == Cardinality({i \in DOMAIN list : list[i] = value})

\* C19: a search returns at most n_results results, the first n_results of the
\* ranking of the whole merge, and the merge holds every hit of either index
C19_TruncationAfterMerge ==
    search_pc = "done" =>
        /\ Len(search_results) <= search_call.n_results
        /\ search_results
               = SubSeq(combined_results, 1,
                        Min(search_call.n_results, Len(combined_results)))
        /\ combined_results = SortByRelevance(combined_results)
        /\ Len(combined_results) = Len(search_call.structured_results)
                                   + Len(search_call.semantic_results)
        /\ \A i \in DOMAIN search_call.structured_results :
               Count(combined_results, StructuredHit(search_call.structured_results[i]))
                   = Count(search_call.structured_results,
                           search_call.structured_results[i])
        /\ \A j \in DOMAIN search_call.semantic_results :
               Count(combined_results, SemanticHit(search_call.semantic_results[j]))
                   = Count(search_call.semantic_results,
                           search_call.semantic_results[j])

\* a search for one result whose only result is a semantic hit ranked above
\* the structured hits that were merged with it
C19_SemanticHitOutranksStructured ==
    /\ search_pc = "done"
    /\ search_call.n_results = 1
    /\ Len(search_call.structured_results) = MaxHits
    /\ Len(combined_results) > Len(search_results)
    /\ Len(search_results) = 1
    /\ search_results[1].search_type = "semantic"
-----------------------------------------------------------------------------
(* Properties of the fetch of one topic *)

\* the topic generate_enhanced_response fetches for
Topic ==
    IF Falsy(call.condition) THEN _extract_condition_from_query(call.query)
    ELSE call.condition

\* the number of articles PubMed serves during a call: none when the search
\* or the fetch of the details fails
ArticlesServed(env) ==
    IF env.esearch = "ok" /\ env.efetch = "ok" THEN env.pmids ELSE 0

\* the pages the two sites serve during a call, a site that fails serving none
PagesServed(env, condition) ==
    (IF env.mayo = "page" THEN <<Page(<<"M", "a", "y", "o", " ", "C", "l", "i", "n", "i", "c">>, condition)>> ELSE <<>>)
    \o (IF env.webmd = "page" THEN <<Page(<<"W", "e", "b", "M", "D">>, condition)>> ELSE <<>>)

\* C12: the failure of the fetch of a source is not fatal to the fetch of a
\* topic: the call returns, the medical data hold the articles and pages of
\* every source that answered, the community data the posts and experiences of
\* every source that answered, and a source that failed adds nothing
C12_SourceFailureNotFatal ==
    (resp_pc = "done" /\ call.name = "generate_enhanced_response" /\ fetched # {}) =>
        /\ ~response.raised
        /\ ~ingest_medical_condition(call.env, Topic).exc
        /\ ~get_community_insights(call.env, Topic).exc
        /\ [i \in DOMAIN ingest_medical_condition(call.env, Topic).v.pubmed_articles |->
               ingest_medical_condition(call.env, Topic).v.pubmed_articles[i].pmid]
               = [i \in 1..ArticlesServed(call.env) |-> i]
        /\ ingest_medical_condition(call.env, Topic).v.web_sources
               = PagesServed(call.env, Topic)
        /\ response.bundle.medical_sources
               = ArticlesServed(call.env) + Len(PagesServed(call.env, Topic))
        /\ response.bundle.community_sources = call.env.posts + call.env.experiences
        /\ get_community_insights(call.env, Topic).v.combined_insights.total_community_sources
               = call.env.posts + call.env.experiences

\* the request to Mayo Clinic failed during a call; PubMed, WebMD, Reddit and
\* the forums answered, and their records are in the bundle
C12_MayoFailedOthersServed ==
    /\ resp_pc = "done"
    /\ call.name = "generate_enhanced_response"
    /\ fetched # {}
    /\ call.env.mayo = "error"
    /\ call.env.pmids = 1
    /\ call.env.efetch = "ok"
    /\ call.env.webmd = "page"
    /\ call.env.posts = 1
    /\ call.env.experiences = 1
    /\ ~response.raised
    /\ response.bundle.medical_sources = 2
    /\ response.bundle.community_sources = 2

-----------------------------------------------------------------------------
(* Properties of the citations and of the confidence score *)

\* C14: format_citations raises no error on any source record, one that lacks
\* organization, year, title, url or type included, and returns a citation for
\* each of the first max_citations records
C14_FormattingNeverFails ==
    (resp_pc = "done" /\ call.name = "format_citations") =>
        /\ ~response.raised
        /\ Len(response.bundle) = Min(call.max_citations, Len(call.sources))

\* the sources the records of a list come from
DistinctSources(sources) == {sources[i].organization : i \in DOMAIN sources}

\* C17: the confidence of a non-empty list of sources is the average relevance
\* plus 0.1 for each distinct source, at most 0.3, plus 0.1 for each 1000
\* characters of the response, at most 0.2, the sum capped at 1.0; records of
\* one source count once
C17_ConfidenceFormula ==
    (resp_pc = "done" /\ call.name = "calculate_confidence_score"
     /\ call.sources # <<>>) =>
        response.bundle
            = Min(Scale,
                  (SumRelevance(call.sources) \div Len(call.sources))
                  + Min(Tenths(1) * Cardinality(DistinctSources(call.sources)), Tenths(3))
                  + Min((call.response_length * Tenths(1)) \div 1000, Tenths(2)))

\* a source of the list is of an organization on the list of credible sources
Authoritative(sources) ==
    \E i \in DOMAIN sources : sources[i].organization \in credible_sources

\* the confidence of a list of sources before any weight for credibility
Unweighted(sources, response_length) ==
    (SumRelevance(sources) \div Len(sources))
    + Min(Len(sources) * Tenths(1), Tenths(3))
    + Min((response_length * Tenths(1)) \div 1000, Tenths(2))

\* C25: the confidence of a bundle with at least one source on the list of
\* credible sources holds the weight 0.2 once, however many such sources there
\* are; a bundle with none holds no weight
C25_CredibilityWeightOnce ==
    (resp_pc = "done" /\ call.name = "calculate_confidence_score"
     /\ call.sources # <<>>) =>
        response.bundle
            = Min(Scale,
                  Unweighted(call.sources, call.response_length)
                  + (IF Authoritative(call.sources) THEN Tenths(2) ELSE 0))
-----------------------------------------------------------------------------
(* Properties of retry_request *)

\* every invocation of func so far raised
AllFailed == \A i \in DOMAIN func_log : func_log[i].raised

\* C15: retry_request invokes func at most MAX_RETRIES times; an invocation
\* that returns is the last one, and its value is what retry_request returns;
\* after MAX_RETRIES invocations that raised, retry_request returns None; it
\* never raises
C15_RetryBudget ==
    /\ Len(func_log) <= MAX_RETRIES
    /\ retry_pc # "raised"
    /\ \A i \in DOMAIN func_log :
          ~func_log[i].raised =>
              /\ i = Len(func_log)
              /\ retry_pc = "returned"
              /\ retry_result = func_log[i].value
    /\ (Len(func_log) = MAX_RETRIES /\ AllFailed) =>
           /\ retry_pc = "returned"
           /\ retry_result = None
    /\ retry_pc = "returned" => ~ENABLED NextRetry

\* func raised MAX_RETRIES times and retry_request returned None
C15_AllRetriesFailed ==
    /\ retry_pc = "returned"
    /\ Len(func_log) = MAX_RETRIES
    /\ AllFailed
    /\ Len(slept) = MAX_RETRIES - 1
    /\ retry_result = None

\* the ceiling of the wait between two attempts: utils/config.py defines the
\* delay, the number of retries and the request timeout, and no ceiling
Ceiling == None

\* C16: the wait after the failed attempt k, counted from 0, is
\* SCRAPING_DELAY * 2^k, and it is at most the ceiling the configuration gives
C16_BackoffWithinCeiling ==
    \A k \in 0..(Len(slept) - 1) :
        /\ slept[k + 1] = SCRAPING_DELAY * Pow2(k)
        /\ Ceiling # None
        /\ slept[k + 1] <= Ceiling.v

-----------------------------------------------------------------------------
(* Properties of deduplicate_data *)

\* the urls of the records of a list that have one
UrlsIn(list) ==
    {Get(list[i], "url", <<>>) : i \in DOMAIN list} \ {<<>>}

\* the records of a list with a url
WithUrl(list, url) == {i \in DOMAIN list : Get(list[i], "url", <<>>) = url}

\* the entries of list are entries of whole, in the order they have in whole
RECURSIVE IsSubsequence(_, _)
IsSubsequence(list, whole) ==
    IF list = <<>> THEN TRUE
    ELSE IF whole = <<>> THEN FALSE
    ELSE IF Head(list) = Head(whole) THEN IsSubsequence(Tail(list), Tail(whole))
    ELSE IsSubsequence(list, Tail(whole))

\* C20: the result of deduplicate_data has exactly one record for each url of
\* its argument, the most recently retrieved of the records with that url, and
\* the records it keeps are in the order of the argument
C20_KeepsMostRecentPerUrl ==
    dedup_pc = "done" =>
        /\ \A url \in UrlsIn(data_list) :
              /\ Cardinality(WithUrl(unique_data, url)) = 1
              /\ \A i \in WithUrl(unique_data, url) :
                    \A j \in WithUrl(data_list, url) :
                        unique_data[i].scraped_at >= data_list[j].scraped_at
        /\ UrlsIn(unique_data) = UrlsIn(data_list)
        /\ IsSubsequence(unique_data, data_list)
-----------------------------------------------------------------------------
(* Properties of the records in the two stores *)

\* the record process_and_store hands to the stores for a raw record: the
\* cleaned record with its confidence score
Produced(record) ==
    SetItem(clean_medical_data(record), "confidence_score",
            Float(validate_medical_content(clean_medical_data(record)).confidence_score))

\* process_and_store stores the record it is given
Accepted(record) == validate_medical_content(clean_medical_data(record)).is_valid

\* C23: the upsert into the structured index leaves every field of the
\* caller's record as the normaliser produced it, so the document the semantic
\* index is given right after is built from that record
C23_RecordUnchangedByUpsert ==
    op.name = "process_and_store" =>
        \A i \in DOMAIN op.data :
            Accepted(op.data[i]) =>
                /\ add_entry(op.db_before, 0, Produced(op.data[i])).data
                       = Produced(op.data[i])
                /\ (i = 1 /\ op.collection_before = EmptyMap) =>
                       collection[DocId(1)]
                           = [ document |-> SearchText(Produced(op.data[i])),
                               metadata |-> Metadata(Produced(op.data[i])) ]

\* C24: the id of the row stored for a url never changes: a step that leaves
\* a row for a url that had one leaves it with the id it had
C24_IdNeverRegenerated ==
    [][\A before \in db : \A after \in db' :
           before.values.url = after.values.url => before.id = after.id]_vars

\* the url of a raw record starts with http:// or https://
HttpUrl(record) ==
    /\ "url" \in DOMAIN record
    /\ HasPrefix(record.url.v, <<"h", "t", "t", "p", ":", "/", "/">>) \/ HasPrefix(record.url.v, <<"h", "t", "t", "p", "s", ":", "/", "/">>)

\* C26: a raw record with a title, a source and an http(s) url keeps its url
\* through clean_medical_data and passes validate_medical_content, and a run
\* of process_and_store on it stores it
C26_CleaningKeepsWellFormed ==
    op.name = "process_and_store" =>
        \A i \in DOMAIN op.data :
            (WellFormed(op.data[i]) /\ HttpUrl(op.data[i])) =>
                /\ clean_medical_data(op.data[i]).url = op.data[i].url
                /\ Accepted(op.data[i])
                /\ RowsOf(op.data[i].url) # {}

\* C27: after a run of process_and_store the two indexes hold records for the
\* same urls, and the run reports as many records stored as processed
C27_IndexesAgree ==
    op.name = "process_and_store" =>
        /\ {row.values.url : row \in db}
               = {collection[id].metadata.url : id \in DOMAIN collection}
        /\ op.result.processed = op.result.stored

\* C28: documents added with different urls have different ids: the
\* collection holds a document for each url it was given
C28_IdsUniqueOverCollection ==
    Cardinality(DOMAIN collection)
        >= Cardinality({url \in DOMAIN last_vec : url.v # <<>>})
-----------------------------------------------------------------------------
(* Properties of a reader next to an upsert *)

\* the record of the url before the upsert, and the record the upsert writes
EarlierRecord == RecordsAt(tx.before, RowValues(ListsToJson(tx.data)).url)
NewRecord     == {RowValues(ListsToJson(tx.data))}

-----------------------------------------------------------------------------
(* Properties of the requests, the websockets and the sessions *)

\* C21: between any two consecutive requests to PubMed, whether the first
\* succeeded or failed, at least the rate limit delay passes
C21_DelayBetweenRequests ==
    \A i \in 1..(Len(request_log) - 1) :
        request_log[i + 1].at - request_log[i].at >= rate_limit_delay

\* C29: active_connections holds only websockets whose handler is running,
\* each at most once; the websocket of a handler that has ended is not in it
C29_OnlyRunningHandlersConnected ==
    /\ \A i \in DOMAIN active_connections :
          handler[active_connections[i]] = "receiving"
    /\ \A i, j \in DOMAIN active_connections :
          active_connections[i] = active_connections[j] => i = j

\* C30: no step of the chat manager removes a session or shortens its message
\* history: create_session files the new session under an id that is not a key
\* of sessions
C30_SessionsNeverOverwritten ==
    [][\A session_id \in DOMAIN sessions :
          /\ session_id \in DOMAIN sessions'
          /\ Len(sessions'[session_id].messages) >= Len(sessions[session_id].messages)]_vars
=============================================================================
